---- MODULE Spec2Model ----
(***************************************************************************)
(* A model of the bgbot auto-battler simulator: the shared Pool            *)
(* (simulator/pool.py), the EventBus (simulator/events.py), the live       *)
(* Board with its effects (simulator/board.py, simulator/minion.py) and    *)
(* Combat on cloned boards (simulator/combat.py).                          *)
(*                                                                         *)
(* Each subsystem has its own specification over the shared variables:     *)
(*   SpecPool   Pool.roll / Pool.return_minion                             *)
(*   SpecBus    EventBus.subscribe / unsubscribe / emit, arbitrary handlers*)
(*   SpecBoard  Board.add_minion / remove_minion / remove_dead_minions     *)
(*   SpecCombat one pairing of Game.combat_phase: clone, resolve_combat    *)
(*   SpecPhase  one pairing of Game.combat_phase: damage after the combat  *)
(*   SpecTavern one Tavern and its Pool                                    *)
(*   SpecTwin   two runs of one combat with the same random outcomes       *)
(*   SpecShop   SpecTavern with purchases and the owner's elimination      *)
(*   SpecCombatRuns  SpecCombat in which a started resolve_combat goes on  *)
(***************************************************************************)
EXTENDS Integers, Sequences, FiniteSets, TLC

VARIABLES
    available_counts,   \* Pool.available_counts: blueprint name -> copies left
    pool_call,          \* the last Pool call: its arguments, locals and outcome
    listeners,          \* EventBus._listeners: event type -> list of callbacks
    emit_pc,            \* "idle", or "dispatching" inside the loop of emit
    emit_type,          \* event.type of the emit in progress (or the last one)
    emit_listeners,     \* the local `listeners` of emit: the copied list
    emit_idx,           \* how many iterations of the loop of emit are done
    emit_before,        \* history: the list of emit_type when emit was called
    emit_invoked,       \* history: the callbacks invoked by this emit, in order
    emit_fault,         \* history: position of the first callback that raised
    emit_outcome,       \* history: "none", "running", "returned", "propagated"
    minions,            \* Board.minions of the player's live board: unit ids
    units,              \* the Minion objects: id -> stats and effect state
    permanent_buffs,    \* Player.permanent_buffs['eternal_knight_deaths']
    board_call,         \* the last Board/Minion call and what it found; history:
                        \* knights built, hits dealt, knights died and removed
    players,            \* the two Players of a pairing: world and live board
    combat,             \* the Combat of the pairing: its boards, the locals of
                        \* resolve_combat, and history of what it did
    phase,              \* a pairing of Game.combat_phase: the two players,
                        \* the winner message and the boards left by combat
    tavern,             \* a Tavern over the Pool: shop, tier, frozen flag,
                        \* upgrade cost
    tavern_call,        \* the last call on the Tavern and what it did
    twin,               \* two runs of one combat fed the same random outcomes
    owner,              \* the Player who owns the Tavern: units bought, alive
    game                \* a Game: its players, SHOP/COMBAT phase, and the
                        \* position of run_game and combat_phase

poolVars == <<available_counts, pool_call>>

busVars == <<listeners, emit_pc, emit_type, emit_listeners, emit_idx,
             emit_before, emit_invoked, emit_fault, emit_outcome>>

emitVars == <<emit_pc, emit_type, emit_listeners, emit_idx, emit_before,
              emit_invoked, emit_fault, emit_outcome>>

boardVars == <<minions, units, permanent_buffs, board_call>>

combatVars == <<players, combat>>

phaseVars == <<phase>>

tavernVars == <<tavern, tavern_call>>

twinVars == <<twin>>

ownerVars == <<owner>>

gameVars == <<game>>

vars == <<available_counts, pool_call, listeners, emit_pc, emit_type,
          emit_listeners, emit_idx, emit_before, emit_invoked, emit_fault,
          emit_outcome, minions, units, permanent_buffs, board_call,
          players, combat, phase, tavern, tavern_call, twin,
          owner, game>>

\* What the actions of one subsystem leave alone.
notPoolVars == <<busVars, boardVars, combatVars, phaseVars, tavernVars, twinVars,
      ownerVars, gameVars>>

notBusVars == <<poolVars, boardVars, combatVars, phaseVars, tavernVars, twinVars,
      ownerVars, gameVars>>

notBoardVars == <<poolVars, emitVars, combatVars, phaseVars, tavernVars, twinVars,
      ownerVars, gameVars>>

notCombatVars == <<poolVars, busVars, boardVars, phaseVars, tavernVars, twinVars,
      ownerVars, gameVars>>

notPhaseVars == <<poolVars, busVars, boardVars, combatVars, tavernVars, twinVars,
      ownerVars, gameVars>>

\* A Tavern changes the counts of its Pool.
notTavernVars == <<pool_call, busVars, boardVars, combatVars, phaseVars,
                   twinVars, ownerVars, gameVars>>

\* A purchase or an elimination changes the owner too.
notShopVars == <<pool_call, busVars, boardVars, combatVars, phaseVars,
                 twinVars, gameVars>>

notGameVars == <<poolVars, busVars, boardVars, combatVars, phaseVars,
                 tavernVars, twinVars, ownerVars>>

notTwinVars == <<poolVars, busVars, boardVars, combatVars, phaseVars,
                 tavernVars, ownerVars, gameVars>>

(***************************************************************************)
(* Bounds of the model.                                                    *)
(***************************************************************************)
\* largest num_to_roll passed to Pool.roll
MaxRoll == 2

\* longest list of callbacks subscribed to one event type
MaxListeners == 3

\* how many Minion objects are referenced at a time
MaxMinions == 8

\* how many units with the 'eternal_knight' effect a run constructs
MaxKnights == 3

\* how many take_damage calls a run makes on units of the live board
MaxHits == 3

\* how many units a player of a combat pairing puts on the live board
MaxBoard == 2

\* how many take_damage calls hit live units before the pairing fights
MaxLiveHits == 1

\* how many players the game has: their names are Player 1 .. Player MaxPlayers
MaxPlayers == 10

\* how many units a caller puts into a shop
MaxShop == 2

\* how many Minion instances are built for a shop
MaxMade == 2

\* how many times a Tavern rerolls
MaxRerolls == 2

\* largest num_players passed to Game
MaxGamePlayers == 3

\* highest tavern tier the players of a Game upgrade to (1: nobody upgrades)
MaxGameTier == 1

(***************************************************************************)
(* Sequence helpers.                                                       *)
(***************************************************************************)
Range(s) == {s[i] : i \in 1..Len(s)}

Min(a, b) == IF a < b THEN a ELSE b

NoDuplicates(s) == \A i, j \in 1..Len(s) : i # j => s[i] # s[j]

IsPrefix(s, t) == Len(s) <= Len(t) /\ \A i \in 1..Len(s) : s[i] = t[i]

\* list.count(x)
Count(s, x) == Cardinality({i \in 1..Len(s) : s[i] = x})

\* list.remove(x): s without its first element equal to x (x occurs in s).
RemoveFirst(s, x) ==
    LET i == CHOOSE k \in 1..Len(s) :
                 s[k] = x /\ \A j \in 1..(k - 1) : s[j] # x
    IN  SubSeq(s, 1, i - 1) \o SubSeq(s, i + 1, Len(s))

(***************************************************************************)
(* Pool (simulator/pool.py).                                               *)
(***************************************************************************)
\* COPIES_PER_TIER (pool.py:111)
COPIES_PER_TIER == [t \in 1..6 |->
    CASE t = 1 -> 15 [] t = 2 -> 15 [] t = 3 -> 13
      [] t = 4 -> 11 [] t = 5 -> 9  [] t = 6 -> 7]

\* Pool.minion_blueprints after Pool(active_tribes = {Tribe.ALL}): the entries
\* of ALL_MINIONS_DATA whose tribes meet {ALL, NEUTRAL} (pool.py:44, 45, 105),
\* each with its tier.
minion_blueprints ==
    [nm \in {"Acolyte of CThun", "Micro Machine", "Amalgadon"} |->
        IF nm = "Amalgadon" THEN 6 ELSE 1]

\* A unit built outside the pool (main.py:12-20); its name is no key of the pool.
UnknownNames == {"Eternal Knight"}

TavernTiers == 1..6

\* The fields the dataclass-generated Minion.__init__ requires: the fields
\* declared without a default (minion.py:34-39).
MinionRequiredFields == {"name", "attack", "health", "tier", "owner", "tribes"}

\* The keyword arguments Pool.roll passes to Minion(...) (pool.py:188-195).
RollMinionKwargs == {"name", "tier", "attack", "health", "tribes", "keywords"}

\* Minion(**kwargs) returns an instance iff every required field is given;
\* otherwise __init__ raises TypeError.
MinionConstructs(kwargs) == MinionRequiredFields \subseteq kwargs

\* pool.py:162-166: names eligible by tier that still have copies.
eligible_minions(counts, tavern_tier) ==
    {nm \in DOMAIN counts :
        counts[nm] > 0 /\ minion_blueprints[nm] <= tavern_tier}

\* pool.py:178: k of the single random.choices call.
num_can_roll(counts, tavern_tier, num_to_roll) ==
    Min(num_to_roll, Cardinality(eligible_minions(counts, tavern_tier)))

\* pool.py:179: random.choices(eligible_names, weights, k) draws k names
\* independently from the same weights (with replacement); every eligible name
\* has weight > 0, so every sequence of k eligible names is a possible outcome.
random_choices(population, k) == [1..k -> population]

\* pool.py:183-195: the loop over chosen_names from position i on.  Each
\* iteration decrements the count, then constructs the Minion; a TypeError of
\* the constructor leaves the loop with the decrement already made.
RECURSIVE roll_loop(_, _, _, _)
roll_loop(counts, chosen_names, i, rolled_minions) ==
    IF i > Len(chosen_names)
    THEN [counts |-> counts, rolled |-> rolled_minions, raised |-> "none"]
    ELSE LET nm == chosen_names[i]
             dec == [counts EXCEPT ![nm] = @ - 1]
         IN  IF MinionConstructs(RollMinionKwargs)
             THEN roll_loop(dec, chosen_names, i + 1, Append(rolled_minions, nm))
             ELSE [counts |-> dec, rolled |-> <<>>, raised |-> "TypeError"]

\* A mutant of roll: the early return for an empty eligible set is missing, so
\* random.choices is called with an empty population and raises IndexError.
roll_no_empty_return(counts, tavern_tier, chosen_names) ==
    IF eligible_minions(counts, tavern_tier) = {}
    THEN [counts |-> counts, rolled |-> <<>>, raised |-> "IndexError"]
    ELSE roll_loop(counts, chosen_names, 1, <<>>)

\* Pool.roll (pool.py:149-196) given the outcome chosen_names of random.choices:
\* the counts afterwards, the names of the Minions returned, the exception.
roll(counts, tavern_tier, chosen_names) ==
    IF eligible_minions(counts, tavern_tier) = {}
    THEN [counts |-> counts, rolled |-> <<>>, raised |-> "none"]
    ELSE roll_loop(counts, chosen_names, 1, <<>>)

\* A mutant of return_minion: the cap at the initial copy count is missing.
return_minion_no_cap(counts, minion_name) ==
    IF minion_name \in DOMAIN counts
    THEN [counts |-> [counts EXCEPT ![minion_name] = @ + 1], raised |-> "none"]
    ELSE [counts |-> counts, raised |-> "none"]

\* A mutant of return_minion: the blueprint is looked up before the membership
\* test, so an unknown name raises KeyError.
return_minion_lookup_first(counts, minion_name) ==
    IF minion_name \in DOMAIN counts
    THEN IF counts[minion_name] < COPIES_PER_TIER[minion_blueprints[minion_name]]
         THEN [counts |-> [counts EXCEPT ![minion_name] = @ + 1], raised |-> "none"]
         ELSE [counts |-> counts, raised |-> "none"]
    ELSE [counts |-> counts, raised |-> "KeyError"]

\* A mutant of return_minion: the comparison with max_copies is <= instead of <.
return_minion_off_by_one(counts, minion_name) ==
    IF minion_name \in DOMAIN counts
    THEN IF counts[minion_name] <= COPIES_PER_TIER[minion_blueprints[minion_name]]
         THEN [counts |-> [counts EXCEPT ![minion_name] = @ + 1], raised |-> "none"]
         ELSE [counts |-> counts, raised |-> "none"]
    ELSE [counts |-> counts, raised |-> "none"]

\* Pool.return_minion (pool.py:198-214): the counts afterwards, the exception.
return_minion(counts, minion_name) ==
    IF minion_name \in DOMAIN counts
    THEN IF counts[minion_name] < COPIES_PER_TIER[minion_blueprints[minion_name]]
         THEN [counts |-> [counts EXCEPT ![minion_name] = @ + 1], raised |-> "none"]
         ELSE [counts |-> counts, raised |-> "none"]
    ELSE [counts |-> counts, raised |-> "none"]   \* prints a warning

\* Pool.__init__ (pool.py:142-147).
PoolInit ==
    /\ available_counts = [nm \in DOMAIN minion_blueprints |->
                              COPIES_PER_TIER[minion_blueprints[nm]]]
    /\ pool_call = [op |-> "init", tavern_tier |-> 0, num_to_roll |-> 0,
                    minion_name |-> "", before |-> available_counts,
                    chosen_names |-> <<>>, rolled |-> <<>>, raised |-> "none"]

\* A call pool.roll(tavern_tier, num_to_roll).
Roll ==
    \E tavern_tier \in TavernTiers, num_to_roll \in 0..MaxRoll :
      \E chosen_names \in random_choices(
              eligible_minions(available_counts, tavern_tier),
              num_can_roll(available_counts, tavern_tier, num_to_roll)) :
        LET r == roll(available_counts, tavern_tier, chosen_names) IN
        /\ available_counts' = r.counts
        /\ pool_call' = [op |-> "roll", tavern_tier |-> tavern_tier,
                         num_to_roll |-> num_to_roll, minion_name |-> "",
                         before |-> available_counts,
                         chosen_names |-> chosen_names,
                         rolled |-> r.rolled, raised |-> r.raised]
        /\ UNCHANGED notPoolVars

\* A call pool.return_minion(minion_name).
ReturnMinion ==
    \E minion_name \in DOMAIN minion_blueprints \cup UnknownNames :
        LET r == return_minion(available_counts, minion_name) IN
        /\ available_counts' = r.counts
        /\ pool_call' = [op |-> "return_minion", tavern_tier |-> 0,
                         num_to_roll |-> 0, minion_name |-> minion_name,
                         before |-> available_counts, chosen_names |-> <<>>,
                         rolled |-> <<>>, raised |-> r.raised]
        /\ UNCHANGED notPoolVars

PoolNext == Roll \/ ReturnMinion

(***************************************************************************)
(* EventBus (simulator/events.py), with arbitrary callbacks.               *)
(***************************************************************************)
\* Two of the members of EventType (events.py:24, 29).
EventTypes == {"minion_dies", "minion_sold"}

\* The callbacks handed to subscribe.
Callbacks == {"h1", "h2"}

\* EventBus.__init__ (events.py:53-55): the empty dict.
NoListeners == [t \in {} |-> <<>>]

\* A mutant of subscribe: the new callback is put at the front of the list.
subscribe_at_front(ls, event_type, callback) ==
    IF event_type \notin DOMAIN ls
    THEN ls @@ (event_type :> <<callback>>)
    ELSE [ls EXCEPT ![event_type] = <<callback>> \o @]

\* EventBus.subscribe (events.py:57-63).
subscribe(ls, event_type, callback) ==
    IF event_type \notin DOMAIN ls
    THEN ls @@ (event_type :> <<callback>>)
    ELSE [ls EXCEPT ![event_type] = Append(@, callback)]

\* EventBus.unsubscribe (events.py:65-69).
unsubscribe(ls, event_type, callback) ==
    IF event_type \in DOMAIN ls /\ callback \in Range(ls[event_type])
    THEN [ls EXCEPT ![event_type] = RemoveFirst(@, callback)]
    ELSE ls

\* The list of event_type as a caller sees it (no key: nothing subscribed).
Subscribed(ls, event_type) ==
    IF event_type \in DOMAIN ls THEN ls[event_type] ELSE <<>>

\* A mutant of emit: the loop runs over the live list, not over a copy.
emit_iterated_live(copied, live) == live

\* events.py:77-78: the list the for loop of emit runs over is the copy taken
\* before the loop, whatever the live list has become since.
emit_iterated(copied, live) == copied

\* A mutant of emit: the handler's exception is not caught.
emit_on_exception_reraise == "propagated"

\* events.py:79-82: an Exception raised by a callback is caught and logged,
\* and the loop goes on.
emit_on_exception == "logged"

\* What a callback may do to the bus it is invoked from: nothing, subscribe or
\* unsubscribe a callback of any event type.
CallbackEffects ==
    {<<"none", "", "">>}
    \cup {<<op, t, cb>> : op \in {"subscribe", "unsubscribe"},
                          t \in EventTypes, cb \in Callbacks}

ApplyEffect(ls, eff) ==
    CASE eff[1] = "none"        -> ls
      [] eff[1] = "subscribe"   -> subscribe(ls, eff[2], eff[3])
      [] eff[1] = "unsubscribe" -> unsubscribe(ls, eff[2], eff[3])

\* The model bounds the length of every list.
WithinBound(ls) == \A t \in DOMAIN ls : Len(ls[t]) <= MaxListeners

BusInit ==
    /\ listeners = NoListeners
    /\ emit_pc = "idle"
    /\ emit_type = ""
    /\ emit_listeners = <<>>
    /\ emit_idx = 0
    /\ emit_before = <<>>
    /\ emit_invoked = <<>>
    /\ emit_fault = 0
    /\ emit_outcome = "none"

NoEmitRecord ==
    /\ emit_type' = ""
    /\ emit_listeners' = <<>>
    /\ emit_idx' = 0
    /\ emit_before' = <<>>
    /\ emit_invoked' = <<>>
    /\ emit_fault' = 0
    /\ emit_outcome' = "none"

\* A call bus.subscribe(event_type, callback) from outside any dispatch.
Subscribe ==
    \E event_type \in EventTypes, callback \in Callbacks :
        /\ emit_pc = "idle"
        /\ WithinBound(subscribe(listeners, event_type, callback))
        /\ listeners' = subscribe(listeners, event_type, callback)
        /\ emit_pc' = "idle"
        /\ NoEmitRecord
        /\ UNCHANGED notBusVars

\* A call bus.unsubscribe(event_type, callback) from outside any dispatch.
Unsubscribe ==
    \E event_type \in EventTypes, callback \in Callbacks :
        /\ emit_pc = "idle"
        /\ listeners' = unsubscribe(listeners, event_type, callback)
        /\ emit_pc' = "idle"
        /\ NoEmitRecord
        /\ UNCHANGED notBusVars

\* A call bus.emit(event) up to the for loop (events.py:71-77).  With no key
\* for event.type the call returns at once.
EmitCall ==
    \E event_type \in EventTypes :
        /\ emit_pc = "idle"
        /\ emit_type' = event_type
        /\ emit_before' = Subscribed(listeners, event_type)
        /\ emit_invoked' = <<>>
        /\ emit_idx' = 0
        /\ emit_fault' = 0
        /\ IF event_type \in DOMAIN listeners
           THEN /\ emit_listeners' = listeners[event_type]
                /\ emit_pc' = "dispatching"
                /\ emit_outcome' = "running"
           ELSE /\ emit_listeners' = <<>>
                /\ emit_pc' = "idle"
                /\ emit_outcome' = "returned"
        /\ UNCHANGED listeners
        /\ UNCHANGED notBusVars

\* One iteration of the for loop of emit (events.py:78-82): the next callback
\* is invoked; it does what it does to the bus and returns or raises.
EmitInvoke ==
    LET it == emit_iterated(emit_listeners, Subscribed(listeners, emit_type)) IN
    /\ emit_pc = "dispatching"
    /\ emit_idx < Len(it)
    /\ \E eff \in CallbackEffects, raises \in BOOLEAN :
        /\ WithinBound(ApplyEffect(listeners, eff))
        /\ listeners' = ApplyEffect(listeners, eff)
        /\ emit_invoked' = Append(emit_invoked, it[emit_idx + 1])
        /\ emit_idx' = emit_idx + 1
        /\ IF raises
           THEN /\ emit_fault' = IF emit_fault = 0 THEN emit_idx + 1
                                                  ELSE emit_fault
                /\ IF emit_on_exception = "logged"
                   THEN /\ emit_pc' = "dispatching"
                        /\ emit_outcome' = "running"
                   ELSE /\ emit_pc' = "idle"
                        /\ emit_outcome' = "propagated"
           ELSE /\ emit_fault' = emit_fault
                /\ emit_pc' = "dispatching"
                /\ emit_outcome' = "running"
    /\ UNCHANGED <<emit_type, emit_listeners, emit_before>>
    /\ UNCHANGED notBusVars

\* The for loop of emit is exhausted and emit returns.
EmitReturn ==
    LET it == emit_iterated(emit_listeners, Subscribed(listeners, emit_type)) IN
    /\ emit_pc = "dispatching"
    /\ emit_idx >= Len(it)
    /\ emit_pc' = "idle"
    /\ emit_outcome' = "returned"
    /\ UNCHANGED <<listeners, emit_type, emit_listeners, emit_idx,
                   emit_before, emit_invoked, emit_fault>>
    /\ UNCHANGED notBusVars

BusNext == Subscribe \/ Unsubscribe \/ EmitCall \/ EmitInvoke \/ EmitReturn

(***************************************************************************)
(* The live Board of one Player, its Minions and their effects             *)
(* (simulator/board.py, simulator/minion.py, simulator/player.py).         *)
(* The player's EventBus is `listeners`; the callback of a unit's          *)
(* EternalKnightEffect is named by the unit's id.                          *)
(***************************************************************************)
\* Board.capacity (board.py:27)
capacity == 7

MINION_DIES == "minion_dies"

UnitIds == 1..MaxMinions

\* create_eternal_knight (main.py:10-20): 4/1, tier 3, effects=['eternal_knight'];
\* its EternalKnightEffect starts with event_bus = None (events.py:92-94).
EternalKnight == [ek |-> TRUE, attack |-> 4, health |-> 1, tier |-> 3,
                  bus |-> FALSE]

\* A unit without effects: 'Micro Machine' 1/2, tier 1 (pool.py:45).
PlainMinion == [ek |-> FALSE, attack |-> 1, health |-> 2, tier |-> 1,
                bus |-> FALSE]

\* No object: not constructed yet, or dropped by every holder.
NoUnit == [ek |-> FALSE, attack |-> 0, health |-> 0, tier |-> 0, bus |-> FALSE]

\* The damage of a take_damage call: a hit of 1, or the overkill of main.py:55.
DamageAmounts == {1, 10}

\* Minion.is_alive (minion.py:75-78)
is_alive(u) == u.health > 0

\* Minion.buff (minion.py:65-68) on unit id of world w.
buff(w, id, attack_increment, health_increment) ==
    [w EXCEPT !.units[id].attack = @ + attack_increment,
              !.units[id].health = @ + health_increment]

\* A mutant of attach_to_game: the catch-up bonus is not applied.
attach_to_game_no_catch_up(w, id) ==
    IF ~w.units[id].ek THEN w
    ELSE [w EXCEPT !.units[id].bus = TRUE,
                   !.ls = subscribe(@, MINION_DIES, id)]

\* Minion.attach_to_game (minion.py:55-58) with EternalKnightEffect.attach
\* (minion.py:89-98) and Effect.attach (events.py:96-99): a unit with the
\* effect gets the bus, subscribes _on_minion_death and takes the catch-up
\* bonus; a unit without effects is left as it is.
attach_to_game(w, id) ==
    IF ~w.units[id].ek THEN w
    ELSE LET w1 == [w EXCEPT !.units[id].bus = TRUE,
                             !.ls = subscribe(@, MINION_DIES, id)]
             initial_bonus == w.buffs
         IN  IF initial_bonus > 0
             THEN buff(w1, id, initial_bonus, initial_bonus)
             ELSE w1

\* A mutant of detach_from_game: the bus reference is cleared without
\* unsubscribing the callback.
detach_from_game_keeps_listener(w, id) ==
    IF w.units[id].ek /\ w.units[id].bus
    THEN [w EXCEPT !.units[id].bus = FALSE]
    ELSE w

\* Minion.detach_from_game (minion.py:60-63) with Effect.detach
\* (events.py:101-105) and _unregister_listeners (minion.py:104-106).
detach_from_game(w, id) ==
    IF w.units[id].ek /\ w.units[id].bus
    THEN [w EXCEPT !.ls = unsubscribe(@, MINION_DIES, id),
                   !.units[id].bus = FALSE]
    ELSE w

\* EternalKnightEffect._on_minion_death (minion.py:108-125) of unit self for
\* the death event of unit source on the same player's board.  x carries the
\* world w and the event's _ek_death_counted attribute.
on_minion_death(x, self, source) ==
    IF ~x.w.units[source].ek \/ source = self
    THEN x
    ELSE LET w1 == IF x.counted THEN x.w
                   ELSE [x.w EXCEPT !.buffs = @ + 1]
         IN  [w |-> buff(w1, self, 1, 1), counted |-> TRUE]

\* The for loop of EventBus.emit (events.py:78-82) over the copied list, from
\* position i on, for the death event of unit source.
RECURSIVE emit_loop(_, _, _, _)
emit_loop(x, copied, i, source) ==
    IF i > Len(copied) THEN x
    ELSE emit_loop(on_minion_death(x, copied[i], source), copied, i + 1, source)

\* EventBus.emit (events.py:71-82) of Event(MINION_DIES, source, player).
emit_minion_dies(w, source) ==
    IF MINION_DIES \in DOMAIN w.ls
    THEN emit_loop([w |-> w, counted |-> FALSE], w.ls[MINION_DIES], 1, source).w
    ELSE w

\* A mutant of add_minion: the effects are attached before the capacity test.
add_minion_attach_first(b, id) ==
    IF Len(b.minions) >= capacity
    THEN [w |-> attach_to_game(b.w, id), minions |-> b.minions,
          raised |-> "ValueError"]
    ELSE [w |-> attach_to_game(b.w, id), minions |-> Append(b.minions, id),
          raised |-> "none"]

\* A mutant of add_minion: the capacity test is > instead of >=.
add_minion_off_by_one(b, id) ==
    IF Len(b.minions) > capacity
    THEN [w |-> b.w, minions |-> b.minions, raised |-> "ValueError"]
    ELSE [w |-> attach_to_game(b.w, id), minions |-> Append(b.minions, id),
          raised |-> "none"]

\* Board.add_minion (board.py:42-47).  b is the board: the world b.w and the
\* list b.minions.
add_minion(b, id) ==
    IF Len(b.minions) >= capacity
    THEN [w |-> b.w, minions |-> b.minions, raised |-> "ValueError"]
    ELSE [w |-> attach_to_game(b.w, id), minions |-> Append(b.minions, id),
          raised |-> "none"]

\* Board.remove_minion (board.py:49-53).
remove_minion(b, id) ==
    IF id \in Range(b.minions)
    THEN [w |-> detach_from_game(b.w, id),
          minions |-> RemoveFirst(b.minions, id), raised |-> "none"]
    ELSE [w |-> b.w, minions |-> b.minions, raised |-> "none"]

\* [m for m in ms if keep(m)]
RECURSIVE SelectAlive(_, _)
SelectAlive(ms, us) ==
    IF ms = <<>> THEN <<>>
    ELSE IF is_alive(us[Head(ms)])
         THEN <<Head(ms)>> \o SelectAlive(Tail(ms), us)
         ELSE SelectAlive(Tail(ms), us)

RECURSIVE SelectDead(_, _)
SelectDead(ms, us) ==
    IF ms = <<>> THEN <<>>
    ELSE IF ~is_alive(us[Head(ms)])
         THEN <<Head(ms)>> \o SelectDead(Tail(ms), us)
         ELSE SelectDead(Tail(ms), us)

\* board.py:64-76: for each unit of dead_minions, from position i on, the
\* death event is emitted and then the unit is detached.
RECURSIVE dead_loop(_, _, _)
dead_loop(w, dead_minions, i) ==
    IF i > Len(dead_minions) THEN w
    ELSE dead_loop(
            detach_from_game(emit_minion_dies(w, dead_minions[i]),
                             dead_minions[i]),
            dead_minions, i + 1)

\* board.py:64-76, one record per unit of dead_minions from position i on:
\* the events the iteration emits, and the world when the emit is called,
\* when it has returned, and when detach_from_game has returned.
RECURSIVE dead_steps(_, _, _)
dead_steps(w, dead_minions, i) ==
    IF i > Len(dead_minions) THEN <<>>
    ELSE LET source == dead_minions[i]
             emitted == emit_minion_dies(w, source)
             detached == detach_from_game(emitted, source)
         IN  <<[events |-> <<[type |-> MINION_DIES, source |-> source]>>,
                at_emit |-> w,
                after_emit |-> emitted,
                after_detach |-> detached]>>
             \o dead_steps(detached, dead_minions, i + 1)

\* Board.remove_dead_minions (board.py:55-78).
remove_dead_minions(b) ==
    LET dead_minions == SelectDead(b.minions, b.w.units) IN
    IF dead_minions = <<>>
    THEN [w |-> b.w, minions |-> b.minions, raised |-> "none"]
    ELSE LET w1 == dead_loop(b.w, dead_minions, 1)
         IN  [w |-> w1, minions |-> SelectAlive(b.minions, w1.units),
              raised |-> "none"]

\* How many units of the list ms carry the 'eternal_knight' effect.
KnightsOn(ms, us) == Cardinality({i \in 1..Len(ms) : us[ms[i]].ek})

\* The live board and its world as the operators take them.
TheBoard ==
    [w |-> [units |-> units, ls |-> listeners, buffs |-> permanent_buffs],
     minions |-> minions]

\* An object is referenced while it is on the board, its effect holds the bus
\* or its callback is subscribed.  Objects nothing refers to are dropped, and
\* the referenced ones are renumbered 1, 2, ... (the units of the board in
\* board order first): which id an object carries is immaterial, so states
\* that differ only in the numbering are one state.
Referenced(r, id) ==
    \/ id \in Range(r.minions)
    \/ r.w.units[id].bus
    \/ id \in Range(Subscribed(r.w.ls, MINION_DIES))

RECURSIVE SortedSeq(_)
SortedSeq(S) ==
    IF S = {} THEN <<>>
    ELSE LET m == CHOOSE x \in S : \A y \in S : x <= y
         IN  <<m>> \o SortedSeq(S \ {m})

Refs(r) ==
    r.minions \o SortedSeq({id \in UnitIds :
                               Referenced(r, id) /\ id \notin Range(r.minions)})

IndexOf(s, x) == CHOOSE i \in 1..Len(s) : s[i] = x

\* The first id no object carries.
FreshId == Len(Refs(TheBoard)) + 1

BoardInit ==
    /\ minions = <<>>
    /\ units = [id \in UnitIds |-> NoUnit]
    /\ permanent_buffs = 0
    /\ board_call = [op |-> "init", raised |-> "none", unit_after |-> NoUnit,
                     knights |-> 0, hits |-> 0, died |-> 0]

\* A result r of a Board operation becomes the next state.
BoardBecomes(r) ==
    \E refs \in {Refs(r)} :
    /\ minions' = [i \in 1..Len(r.minions) |-> i]
    /\ units' = [i \in UnitIds |->
                    IF i <= Len(refs) THEN r.w.units[refs[i]] ELSE NoUnit]
    /\ listeners' = [t \in DOMAIN r.w.ls |->
                        [j \in 1..Len(r.w.ls[t]) |-> IndexOf(refs, r.w.ls[t][j])]]
    /\ permanent_buffs' = r.w.buffs

\* A new Minion is constructed for the player and board.add_minion is called
\* with it (main.py:42-48, game.py:190-195).
AddMinion ==
    \E fresh \in {EternalKnight, PlainMinion} :
        \E id \in {FreshId} \cap UnitIds :
        \E r \in {add_minion([TheBoard EXCEPT !.w.units[id] = fresh], id)} :
            /\ fresh.ek => board_call.knights < MaxKnights
            /\ BoardBecomes(r)
            /\ board_call' = [op |-> "add_minion", raised |-> r.raised,
                              unit_after |-> r.w.units[id],
                              knights |-> board_call.knights
                                          + (IF fresh.ek THEN 1 ELSE 0),
                              hits |-> board_call.hits,
                              died |-> board_call.died]
            /\ UNCHANGED notBoardVars

\* board.remove_minion(unit) for a unit of the board.
RemoveMinion ==
    \E id \in Range(minions) :
        \E r \in {remove_minion(TheBoard, id)} :
            /\ BoardBecomes(r)
            /\ board_call' = [op |-> "remove_minion", raised |-> r.raised,
                              unit_after |-> NoUnit,
                              knights |-> board_call.knights,
                              hits |-> board_call.hits,
                              died |-> board_call.died]
            /\ UNCHANGED notBoardVars

\* unit.take_damage(damage) (minion.py:70-73) for a living unit of the board.
TakeDamage ==
    \E id \in Range(minions), damage \in DamageAmounts :
        /\ is_alive(units[id])
        /\ board_call.hits < MaxHits
        /\ units' = [units EXCEPT ![id].health = @ - damage]
        /\ board_call' = [op |-> "take_damage", raised |-> "none",
                          unit_after |-> NoUnit,
                          knights |-> board_call.knights,
                          hits |-> board_call.hits + 1,
                          died |-> board_call.died]
        /\ UNCHANGED <<minions, listeners, permanent_buffs>>
        /\ UNCHANGED notBoardVars

\* board.remove_dead_minions().
RemoveDeadMinions ==
    \E r \in {remove_dead_minions(TheBoard)} :
        /\ BoardBecomes(r)
        /\ board_call' = [op |-> "remove_dead_minions", raised |-> r.raised,
                          unit_after |-> NoUnit,
                          knights |-> board_call.knights,
                          hits |-> board_call.hits,
                          died |-> board_call.died
                                   + KnightsOn(minions, units)
                                   - KnightsOn(r.minions, r.w.units)]
        /\ UNCHANGED notBoardVars

BoardNext == AddMinion \/ RemoveMinion \/ TakeDamage \/ RemoveDeadMinions

(***************************************************************************)
(* One combat pairing (Game.combat_phase, game.py:278-289, and             *)
(* simulator/combat.py).  Each of the two players has a world: the Minion  *)
(* objects the player owns, the listener lists of the player's EventBus    *)
(* and the player's counter.  The live units of a player carry the ids     *)
(* 1..MaxBoard, the deep copies made for the combat the ids above them.    *)
(***************************************************************************)
Sides == 1..2

\* The id of the deep copy of the i-th unit of a live board.
CopyId(i) == MaxBoard + i

CopyIds == {CopyId(i) : i \in 1..MaxBoard}

\* A Player after Player.__init__ (player.py:26-55) with a new EventBus:
\* no Minion object yet, no subscription, an empty counter and board.
NewPlayer ==
    [w |-> [units |-> <<>>, ls |-> NoListeners, buffs |-> 0],
     board |-> <<>>]

\* Minion.take_damage (minion.py:70-73)
take_damage(u, damage) == [u EXCEPT !.health = @ - damage]

\* Board.alive_minions (board.py:90-92)
alive_minions(ms, us) == SelectAlive(ms, us)

\* Board.clone_for_combat (board.py:30-39).  deepcopy(m) copies the unit with
\* everything it refers to: the copy has the stats of the original, and its
\* effect holds a copy of the bus when the original's effect holds the bus.
\* The new Board has the same owner, so it reaches the owner's own bus and
\* counter.
clone_for_combat(b) ==
    [w |-> [b.w EXCEPT !.units =
                [id \in DOMAIN b.w.units
                         \cup {CopyId(i) : i \in 1..Len(b.minions)} |->
                    IF \E i \in 1..Len(b.minions) : id = CopyId(i)
                    THEN b.w.units[b.minions[id - MaxBoard]]
                    ELSE b.w.units[id]]],
     minions |-> [i \in 1..Len(b.minions) |-> CopyId(i)]]

\* A mutant of _determineOrder: the board with fewer units goes first.
determineOrder_fewer_first(count1, count2, flip) ==
    IF count1 < count2 THEN "board1 goes first"
    ELSE IF count1 > count2 THEN "board2 goes first"
    ELSE IF flip = "heads" THEN "board1 goes first"
    ELSE "board2 goes first"

\* Combat._determineOrder (combat.py:18-28); flip is random.choice's pick.
determineOrder(count1, count2, flip) ==
    IF count1 > count2 THEN "board1 goes first"
    ELSE IF count1 < count2 THEN "board2 goes first"
    ELSE IF flip = "heads" THEN "board1 goes first"
    ELSE "board2 goes first"

\* Combat._find_target (combat.py:31-37): what random.choice may pick.
find_target(board_minions) == Range(board_minions)

\* The local first_attacker of resolve_combat refers to a deque object:
\* the one made for side `deque`, which is the object the name attackers1 or
\* attackers2 is bound to now (current) or an object those names were bound
\* to before lines 79-80 rebound them.
is_attackers1(first_attacker) ==
    first_attacker.deque = 1 /\ first_attacker.current

\* combat.py:79-80 bind attackers1 and attackers2 to new deque objects; what
\* first_attacker refers to is then neither of them.
after_rebinding(first_attacker) == [first_attacker EXCEPT !.current = FALSE]

\* combat.py:83
swap_turns(first_attacker) ==
    IF is_attackers1(first_attacker)
    THEN [deque |-> 2, current |-> TRUE]
    ELSE [deque |-> 1, current |-> TRUE]

\* A mutant of the exchange: a target killed by the hit does not strike back.
exchange_no_retaliation_when_killed(ps, s, attacker, target) ==
    LET d   == 3 - s
        ps1 == [ps EXCEPT ![d].w.units[target] =
                    take_damage(@, ps[s].w.units[attacker].attack)]
    IN  IF is_alive(ps1[d].w.units[target])
        THEN [ps1 EXCEPT ![s].w.units[attacker] =
                    take_damage(@, ps1[d].w.units[target].attack)]
        ELSE ps1

\* combat.py:68-69 (and 106-107, 119-120): the attacker of side s and the
\* target of the other side deal their attack to each other.
exchange(ps, s, attacker, target) ==
    LET d   == 3 - s
        ps1 == [ps EXCEPT ![d].w.units[target] =
                    take_damage(@, ps[s].w.units[attacker].attack)]
    IN  [ps1 EXCEPT ![s].w.units[attacker] =
                    take_damage(@, ps1[d].w.units[target].attack)]

\* How many callbacks of the owner's bus an emit per dead unit of ms invokes.
callbacks_invoked(w, ms) ==
    Len(SelectDead(ms, w.units)) * Len(Subscribed(w.ls, MINION_DIES))

\* combat.py:77-78 (and 127-128): remove_dead_minions of both combat boards,
\* each with its owner's world.
cleanup(ps, c) ==
    LET r1 == remove_dead_minions([w |-> ps[1].w, minions |-> c.board1])
        r2 == remove_dead_minions([w |-> ps[2].w, minions |-> c.board2])
    IN  [ps |-> [s \in Sides |->
                    [ps[s] EXCEPT !.w = IF s = 1 THEN r1.w ELSE r2.w]],
         c  |-> [c EXCEPT !.board1 = r1.minions,
                          !.board2 = r2.minions,
                          !.invoked = @ + callbacks_invoked(ps[1].w, c.board1)
                                        + callbacks_invoked(ps[2].w, c.board2)]]

\* What the exchange of this iteration found and left (history).
exchange_record(ps, ps1, s, attacker, target) ==
    [side |-> s, attacker |-> attacker, target |-> target,
     before |-> [p \in Sides |-> ps[p].w.units],
     after  |-> [p \in Sides |-> ps1[p].w.units]]

\* A mutant of the deque loop: a surviving attacker goes back to the front of
\* its queue.
deque_turn_requeue_front(ps, c, target) ==
    LET s        == IF is_attackers1(c.first_attacker) THEN 1 ELSE 2
        attacker == IF s = 1 THEN Head(c.attackers1) ELSE Head(c.attackers2)
        ps1      == exchange(ps, s, attacker, target)
        popped   == IF s = 1 THEN Tail(c.attackers1) ELSE Tail(c.attackers2)
        queue    == IF is_alive(ps1[s].w.units[attacker])
                    THEN <<attacker>> \o popped ELSE popped
        c1       == IF s = 1 THEN [c EXCEPT !.attackers1 = queue]
                    ELSE [c EXCEPT !.attackers2 = queue]
        x        == cleanup(ps1, c1)
    IN  [ps |-> x.ps,
         c  |-> [x.c EXCEPT
                   !.attackers1 = SelectAlive(@, x.ps[1].w.units),
                   !.attackers2 = SelectAlive(@, x.ps[2].w.units),
                   !.first_attacker = swap_turns(after_rebinding(@)),
                   !.iteration = @ + 1,
                   !.attacking = s,
                   !.loop = "deque",
                   !.exch = exchange_record(ps, ps1, s, attacker, target)]]

\* A mutant of the deque loop: the queues are not rebuilt from their living
\* units after the cleanup.
deque_turn_queues_unpruned(ps, c, target) ==
    LET s        == IF is_attackers1(c.first_attacker) THEN 1 ELSE 2
        attacker == IF s = 1 THEN Head(c.attackers1) ELSE Head(c.attackers2)
        ps1      == exchange(ps, s, attacker, target)
        popped   == IF s = 1 THEN Tail(c.attackers1) ELSE Tail(c.attackers2)
        queue    == IF is_alive(ps1[s].w.units[attacker])
                    THEN Append(popped, attacker) ELSE popped
        c1       == IF s = 1 THEN [c EXCEPT !.attackers1 = queue]
                    ELSE [c EXCEPT !.attackers2 = queue]
        x        == cleanup(ps1, c1)
    IN  [ps |-> x.ps,
         c  |-> [x.c EXCEPT
                   !.first_attacker = swap_turns(after_rebinding(@)),
                   !.iteration = @ + 1,
                   !.attacking = s,
                   !.loop = "deque",
                   !.exch = exchange_record(ps, ps1, s, attacker, target)]]

\* One iteration of the deque loop (combat.py:52-83) that reaches the
\* exchange, with the target random.choice picks.
deque_turn(ps, c, target) ==
    LET s        == IF is_attackers1(c.first_attacker) THEN 1 ELSE 2
        attacker == IF s = 1 THEN Head(c.attackers1) ELSE Head(c.attackers2)
        ps1      == exchange(ps, s, attacker, target)
        popped   == IF s = 1 THEN Tail(c.attackers1) ELSE Tail(c.attackers2)
        queue    == IF is_alive(ps1[s].w.units[attacker])
                    THEN Append(popped, attacker) ELSE popped
        c1       == IF s = 1 THEN [c EXCEPT !.attackers1 = queue]
                    ELSE [c EXCEPT !.attackers2 = queue]
        x        == cleanup(ps1, c1)
    IN  [ps |-> x.ps,
         c  |-> [x.c EXCEPT
                   !.attackers1 = SelectAlive(@, x.ps[1].w.units),
                   !.attackers2 = SelectAlive(@, x.ps[2].w.units),
                   !.first_attacker = swap_turns(after_rebinding(@)),
                   !.iteration = @ + 1,
                   !.attacking = s,
                   !.loop = "deque",
                   !.exch = exchange_record(ps, ps1, s, attacker, target)]]

\* One iteration of the index loop (combat.py:98-139), with the target
\* random.choice picks.
index_turn(ps, c, target) ==
    LET s        == c.current_attacker_board
        attacker == IF s = 1 THEN c.board1[c.attacker_idx_1 + 1]
                    ELSE c.board2[c.attacker_idx_2 + 1]
        ps1      == exchange(ps, s, attacker, target)
        c1       == IF s = 1
                    THEN [c EXCEPT !.current_attacker_board = 2,
                                   !.attacker_idx_1 = @ + 1]
                    ELSE [c EXCEPT !.current_attacker_board = 1,
                                   !.attacker_idx_2 = @ + 1]
        x        == cleanup(ps1, c1)
        c2       == [x.c EXCEPT
                       !.iteration = @ + 1,
                       !.attacking = s,
                       !.loop = "index",
                       !.exch = exchange_record(ps, ps1, s, attacker, target)]
    IN  [ps |-> x.ps,
         c  |-> IF c2.board1 = <<>> \/ c2.board2 = <<>>
                THEN c2
                ELSE [c2 EXCEPT
                        !.attacker_idx_1 =
                            IF @ >= Len(c2.board1) THEN 0 ELSE @,
                        !.attacker_idx_2 =
                            IF @ >= Len(c2.board2) THEN 0 ELSE @]]

\* A mutant of the winner determination: the sides are swapped.
winner_swapped(c) ==
    IF Len(c.board1) > 0 THEN "board2 wins"
    ELSE IF Len(c.board2) > 0 THEN "board1 wins"
    ELSE "tie"

\* A mutant of the winner determination: a combat without an exchange is a tie.
winner_tie_when_unfought(c) ==
    IF c.iteration = 0 THEN "tie"
    ELSE IF Len(c.board1) > 0 THEN "board1 wins"
    ELSE IF Len(c.board2) > 0 THEN "board2 wins"
    ELSE "tie"

\* A mutant of the winner determination: with both boards empty the side
\* that attacked last is the winner.
winner_no_tie(c) ==
    IF Len(c.board1) > 0 THEN "board1 wins"
    ELSE IF Len(c.board2) > 0 THEN "board2 wins"
    ELSE IF c.attacking = 2 THEN "board2 wins"
    ELSE "board1 wins"

\* combat.py:143-147
winner(c) ==
    IF Len(c.board1) > 0 THEN "board1 wins"
    ELSE IF Len(c.board2) > 0 THEN "board2 wins"
    ELSE "tie"

\* No exchange yet: nothing to compare.
NoExchange ==
    [side |-> 0, attacker |-> 0, target |-> 0, before |-> <<>>, after |-> <<>>]

CombatInit ==
    /\ players = [s \in Sides |-> NewPlayer]
    /\ combat = [pc |-> "idle", order |-> "none",
                 board1 |-> <<>>, board2 |-> <<>>,
                 attackers1 |-> <<>>, attackers2 |-> <<>>,
                 first_attacker |-> [deque |-> 0, current |-> FALSE],
                 attacker_idx_1 |-> 0, attacker_idx_2 |-> 0,
                 current_attacker_board |-> 0, result |-> "none",
                 live_hits |-> 0, entry |-> <<>>,
                 iteration |-> 0, attacking |-> 0, loop |-> "none",
                 invoked |-> 0, exch |-> NoExchange]

\* A new Minion is built for player s and put on the player's live board
\* with board.add_minion (main.py:42-48, game.py:190-195).
LiveAddMinion ==
    \E s \in Sides, fresh \in {EternalKnight, PlainMinion} :
        \E id \in {Len(players[s].board) + 1} :
        \E r \in {add_minion([w |-> [players[s].w EXCEPT
                                        !.units = (id :> fresh) @@ @],
                              minions |-> players[s].board], id)} :
            /\ combat.pc = "idle"
            /\ id <= MaxBoard
            /\ players' = [players EXCEPT ![s] = [w |-> r.w, board |-> r.minions]]
            /\ UNCHANGED combat
            /\ UNCHANGED notCombatVars

\* unit.take_damage(damage) on a living unit of a live board (main.py:55).
LiveTakeDamage ==
    \E s \in Sides, damage \in DamageAmounts :
        \E id \in Range(players[s].board) :
            /\ combat.pc = "idle"
            /\ combat.live_hits < MaxLiveHits
            /\ is_alive(players[s].w.units[id])
            /\ players' = [players EXCEPT ![s].w.units[id] = take_damage(@, damage)]
            /\ combat' = [combat EXCEPT !.live_hits = @ + 1]
            /\ UNCHANGED notCombatVars

\* Game.combat_phase for the pairing (game.py:283-289) up to the while test
\* of resolve_combat: both boards are cloned, Combat.__init__ determines the
\* order (combat.py:13-16) and resolve_combat makes the queues and picks
\* first_attacker (combat.py:44-47).  ps are the players, c the record of
\* the Combat, flip what random.choice(["heads", "tails"]) gives.
combat_start(ps, c, flip) ==
    LET cb1 == clone_for_combat([w |-> ps[1].w, minions |-> ps[1].board])
        cb2 == clone_for_combat([w |-> ps[2].w, minions |-> ps[2].board])
        order == determineOrder(Len(cb1.minions), Len(cb2.minions), flip)
    IN  [ps |-> [s \in Sides |->
                    [ps[s] EXCEPT !.w = IF s = 1 THEN cb1.w ELSE cb2.w]],
         c  |-> [c EXCEPT
                   !.pc = "deque_loop",
                   !.order = order,
                   !.board1 = cb1.minions,
                   !.board2 = cb2.minions,
                   !.attackers1 = cb1.minions,
                   !.attackers2 = cb2.minions,
                   !.first_attacker =
                       [deque |-> IF order = "board1 goes first" THEN 1 ELSE 2,
                        current |-> TRUE],
                   !.entry = ps]]

\* combat.py:52-57: the side that attacks in this iteration of the deque loop.
attacking_side(c) == IF is_attackers1(c.first_attacker) THEN 1 ELSE 2

\* combat.py:54, 57 (deque loop) and 103, 116 (index loop): the board the
\* target is picked from.
defending_board(c) ==
    LET s == IF c.pc = "deque_loop" THEN attacking_side(c)
             ELSE c.current_attacker_board
    IN  IF s = 1 THEN c.board2 ELSE c.board1

\* combat.py:49, 64: the while test holds, and the test of the break of line
\* 64 with the value has_alive.
in_deque_loop(ps, c, has_alive) ==
    /\ c.pc = "deque_loop"
    /\ c.attackers1 # <<>>
    /\ c.attackers2 # <<>>
    /\ (alive_minions(defending_board(c),
                      ps[3 - attacking_side(c)].w.units) # <<>>) = has_alive

\* combat.py:91-95: the locals of the index loop.
enter_index_loop(c) ==
    [c EXCEPT !.pc = "index_loop",
              !.attacker_idx_1 = 0,
              !.attacker_idx_2 = 0,
              !.current_attacker_board =
                  IF c.order = "board1 goes first" THEN 1 ELSE 2]

\* combat.py:60-64: the attacker is taken from its queue and the loop is left.
deque_break(c) ==
    enter_index_loop(
        [c EXCEPT !.attackers1 = IF attacking_side(c) = 1 THEN Tail(@) ELSE @,
                  !.attackers2 = IF attacking_side(c) = 2 THEN Tail(@) ELSE @])

\* A mutant of the while test of the deque loop: `or` for `and`, so the loop
\* is left only when both queues are empty.
deque_exhausted_when_both_empty(c) ==
    /\ c.pc = "deque_loop"
    /\ c.attackers1 = <<>> /\ c.attackers2 = <<>>

\* combat.py:49: the while test of the deque loop fails.
deque_exhausted(c) ==
    /\ c.pc = "deque_loop"
    /\ c.attackers1 = <<>> \/ c.attackers2 = <<>>

\* combat.py:98: the while test of the index loop.
in_index_loop(c) ==
    /\ c.pc = "index_loop"
    /\ Len(c.board1) > 0
    /\ Len(c.board2) > 0

\* combat.py:98, 131-132: the index loop is over.
index_loop_over(c) ==
    /\ c.pc = "index_loop"
    /\ Len(c.board1) = 0 \/ Len(c.board2) = 0

\* combat.py:141-147
combat_return(c) == [c EXCEPT !.pc = "returned", !.result = winner(c)]

\* Game.combat_phase starts the combat of the pairing.
CombatStart ==
    \E flip \in {"heads", "tails"} :
        \E r \in {combat_start(players, combat, flip)} :
            /\ combat.pc = "idle"
            /\ players' = r.ps
            /\ combat' = r.c
            /\ UNCHANGED notCombatVars

\* An iteration of the deque loop that runs to its end (combat.py:49-83).
DequeTurn ==
    /\ in_deque_loop(players, combat, TRUE)
    /\ \E target \in find_target(defending_board(combat)) :
       \E r \in {deque_turn(players, combat, target)} :
          /\ players' = r.ps
          /\ combat' = r.c
    /\ UNCHANGED notCombatVars

\* An iteration of the deque loop that leaves it at the break of
\* combat.py:64: the attacker is taken from its queue and the defending
\* board has no living unit.  The index loop is next (combat.py:91-95).
DequeBreak ==
    /\ in_deque_loop(players, combat, FALSE)
    /\ combat' = deque_break(combat)
    /\ UNCHANGED players
    /\ UNCHANGED notCombatVars

\* The while test of the deque loop fails (combat.py:49); the index loop is
\* next (combat.py:91-95).
DequeExit ==
    /\ deque_exhausted(combat)
    /\ combat' = enter_index_loop(combat)
    /\ UNCHANGED players
    /\ UNCHANGED notCombatVars

\* An iteration of the index loop (combat.py:98-139).
IndexTurn ==
    /\ in_index_loop(combat)
    /\ \E target \in find_target(defending_board(combat)) :
       \E r \in {index_turn(players, combat, target)} :
          /\ players' = r.ps
          /\ combat' = r.c
    /\ UNCHANGED notCombatVars

\* The index loop is over (its while test fails, or the break of
\* combat.py:131-132 was taken); resolve_combat names the winner and returns
\* (combat.py:141-147).
CombatReturn ==
    /\ index_loop_over(combat)
    /\ combat' = combat_return(combat)
    /\ UNCHANGED players
    /\ UNCHANGED notCombatVars

CombatNext ==
    \/ LiveAddMinion
    \/ LiveTakeDamage
    \/ CombatStart
    \/ DequeTurn
    \/ DequeBreak
    \/ DequeExit
    \/ IndexTurn
    \/ CombatReturn

(***************************************************************************)
(* Two runs of the combat of one pairing from the same boards, fed the     *)
(* same outcomes of the random source.  A run is the players as the run    *)
(* sees them (ps) and the record of its Combat (c).                        *)
(***************************************************************************)
\* A mutant of random.choice: what is picked does not depend on what the
\* random source yields.
random_choice_unfed(seq, k) == Range(seq)

\* random.choice(seq) (combat.py:24, 37) when the random source yields
\* position k: what the call can return.
random_choice(seq, k) == {seq[k]}

TwinInit == twin = [runs |-> <<>>]

\* The two runs, once started.
Running == IF twin.runs = <<>> THEN {} ELSE 1..2

\* The positions the random source can yield for the pick of the target.
TargetPositions ==
    1..Min(Len(defending_board(twin.runs[1].c)),
           Len(defending_board(twin.runs[2].c)))

\* The boards of the pairing are filled before the two runs start.
TwinLiveAddMinion == twin.runs = <<>> /\ LiveAddMinion

TwinLiveTakeDamage == twin.runs = <<>> /\ LiveTakeDamage

\* Both runs start from the boards of the players, with the same outcome k
\* of the coin flip.
TwinStart ==
    \E k \in 1..2 :
      \E flip1 \in random_choice(<<"heads", "tails">>, k),
         flip2 \in random_choice(<<"heads", "tails">>, k) :
        /\ twin.runs = <<>>
        /\ twin' = [runs |-> <<combat_start(players, combat, flip1),
                               combat_start(players, combat, flip2)>>]
        /\ UNCHANGED notTwinVars

\* Both runs make an iteration of the deque loop with the same outcome k of
\* the pick of the target.
TwinDequeTurn ==
    /\ (Running # {} /\ \A i \in Running : in_deque_loop(twin.runs[i].ps, twin.runs[i].c, TRUE))
    /\ \E k \in TargetPositions :
       \E target1 \in random_choice(defending_board(twin.runs[1].c), k),
          target2 \in random_choice(defending_board(twin.runs[2].c), k) :
          twin' = [runs |-> <<deque_turn(twin.runs[1].ps, twin.runs[1].c,
                                         target1),
                              deque_turn(twin.runs[2].ps, twin.runs[2].c,
                                         target2)>>]
    /\ UNCHANGED notTwinVars

\* Both runs leave the deque loop at the break of combat.py:64.
TwinDequeBreak ==
    /\ (Running # {} /\ \A i \in Running : in_deque_loop(twin.runs[i].ps, twin.runs[i].c, FALSE))
    /\ twin' = [runs |-> [i \in 1..2 |->
                   [twin.runs[i] EXCEPT !.c = deque_break(@)]]]
    /\ UNCHANGED notTwinVars

\* The while test of the deque loop fails in both runs.
TwinDequeExit ==
    /\ (Running # {} /\ \A i \in Running : deque_exhausted(twin.runs[i].c))
    /\ twin' = [runs |-> [i \in 1..2 |->
                   [twin.runs[i] EXCEPT !.c = enter_index_loop(@)]]]
    /\ UNCHANGED notTwinVars

\* Both runs make an iteration of the index loop with the same outcome k of
\* the pick of the target.
TwinIndexTurn ==
    /\ (Running # {} /\ \A i \in Running : in_index_loop(twin.runs[i].c))
    /\ \E k \in TargetPositions :
       \E target1 \in random_choice(defending_board(twin.runs[1].c), k),
          target2 \in random_choice(defending_board(twin.runs[2].c), k) :
          twin' = [runs |-> <<index_turn(twin.runs[1].ps, twin.runs[1].c,
                                         target1),
                              index_turn(twin.runs[2].ps, twin.runs[2].c,
                                         target2)>>]
    /\ UNCHANGED notTwinVars

\* Both runs return.
TwinReturn ==
    /\ (Running # {} /\ \A i \in Running : index_loop_over(twin.runs[i].c))
    /\ twin' = [runs |-> [i \in 1..2 |->
                   [twin.runs[i] EXCEPT !.c = combat_return(@)]]]
    /\ UNCHANGED notTwinVars

TwinNext ==
    \/ TwinLiveAddMinion
    \/ TwinLiveTakeDamage
    \/ TwinStart
    \/ TwinDequeTurn
    \/ TwinDequeBreak
    \/ TwinDequeExit
    \/ TwinIndexTurn
    \/ TwinReturn

(***************************************************************************)
(* The outcome of a pairing in Game.combat_phase (game.py:278-297): the    *)
(* winner message of resolve_combat is matched against the players' names  *)
(* and the loser takes damage.  Text is a sequence of characters.          *)
(***************************************************************************)
DigitChars == <<"0", "1", "2", "3", "4", "5", "6", "7", "8", "9">>

\* str(n) for a natural number n
RECURSIVE str(_)
str(n) ==
    IF n < 10 THEN <<DigitChars[n + 1]>>
    ELSE str(n \div 10) \o <<DigitChars[(n % 10) + 1]>>

\* f"Player {idx + 1}" (game.py:90) for the player number idx + 1
player_name(number) == <<"P", "l", "a", "y", "e", "r", " ">> \o str(number)

\* f"{name} wins!" (combat.py:144, 146)
wins_message(name) == name \o <<" ", "w", "i", "n", "s", "!">>

\* "It's a Tie!" (combat.py:147)
tie_message == <<"I", "t", "'", "s", " ", "a", " ", "T", "i", "e", "!">>

\* What resolve_combat returns (combat.py:143-147) for boards owned by the
\* players named name1 and name2.
winner_message(c, name1, name2) ==
    IF winner(c) = "board1 wins" THEN wins_message(name1)
    ELSE IF winner(c) = "board2 wins" THEN wins_message(name2)
    ELSE tie_message

\* Python's `sub in text` for strings.
contains(text, sub) ==
    \E i \in 1..(Len(text) - Len(sub) + 1) :
        SubSeq(text, i, i + Len(sub) - 1) = sub

\* sum(m.tier for m in board.minions); tiers is the list of the units' tiers.
RECURSIVE sum_tiers(_)
sum_tiers(tiers) ==
    IF tiers = <<>> THEN 0 ELSE Head(tiers) + sum_tiers(Tail(tiers))

\* Player.take_damage (player.py:60-64) with game_over (player.py:66-71) as
\* far as the player's own fields go.
player_take_damage(p, dmg) ==
    [p EXCEPT !.health = @ - dmg,
              !.alive = IF p.health - dmg <= 0 THEN FALSE ELSE @]

\* A mutant of apply_combat_damage: the second test is an `if`, not an
\* `elif`, and each player is hit when the message is not a tie.
apply_combat_damage_both(p1, p2, message, tiers1, tiers2) ==
    IF contains(message, player_name(p1.number))
       \/ contains(message, player_name(p2.number))
    THEN [p1 |-> player_take_damage(p1, p2.tier + sum_tiers(tiers2)),
          p2 |-> player_take_damage(p2, p1.tier + sum_tiers(tiers1))]
    ELSE [p1 |-> p1, p2 |-> p2]

\* game.py:291-297: who takes damage for the winner message.
apply_combat_damage(p1, p2, message, tiers1, tiers2) ==
    IF contains(message, player_name(p1.number))
    THEN [p1 |-> p1,
          p2 |-> player_take_damage(p2, p1.tier + sum_tiers(tiers1))]
    ELSE IF contains(message, player_name(p2.number))
    THEN [p1 |-> player_take_damage(p1, p2.tier + sum_tiers(tiers2)),
          p2 |-> p2]
    ELSE [p1 |-> p1, p2 |-> p2]

\* The tiers the units of a combat board can have (main.py:10-20, pool.py:45).
UnitTiers == {EternalKnight.tier, PlainMinion.tier}

\* The lists of unit tiers of a combat board of at most MaxBoard units.
BoardTiers == UNION {[1..n -> UnitTiers] : n \in 0..MaxBoard}

\* A Player of the game (player.py:37-55): number in the name, health, the
\* tier of the tavern, alive flag.
NewGamePlayer(number, tier) ==
    [number |-> number, health |-> 30, tier |-> tier, alive |-> TRUE]

PhaseInit == phase = [pc |-> "lobby"]

\* game.py:275-281: two living players of the game are paired as p1 and p2.
PhasePair ==
    \E n1 \in 1..MaxPlayers, n2 \in 1..MaxPlayers, t1 \in TavernTiers,
       t2 \in TavernTiers :
        /\ phase.pc = "lobby"
        /\ n1 # n2
        /\ phase' = [pc |-> "paired",
                     p1 |-> NewGamePlayer(n1, t1),
                     p2 |-> NewGamePlayer(n2, t2)]
        /\ UNCHANGED notPhaseVars

\* game.py:283-289: the boards are cloned and resolve_combat returns its
\* message.  What is left of the combat boards is drawn here: resolve_combat
\* returns with at least one combat board empty.
PhaseResolveCombat ==
    \E tiers1 \in BoardTiers, tiers2 \in BoardTiers :
        /\ phase.pc = "paired"
        /\ tiers1 = <<>> \/ tiers2 = <<>>
        /\ phase' = [pc |-> "resolved",
                     p1 |-> phase.p1,
                     p2 |-> phase.p2,
                     board1 |-> tiers1,
                     board2 |-> tiers2,
                     message |-> winner_message(
                                    [board1 |-> tiers1, board2 |-> tiers2],
                                    player_name(phase.p1.number),
                                    player_name(phase.p2.number))]
        /\ UNCHANGED notPhaseVars

\* game.py:291-297: damage for the pairing.
PhaseDamage ==
    /\ phase.pc = "resolved"
    /\ \E r \in {apply_combat_damage(phase.p1, phase.p2, phase.message,
                                     phase.board1, phase.board2)} :
          phase' = [pc |-> "done",
                    p1 |-> r.p1,
                    p2 |-> r.p2,
                    board1 |-> phase.board1,
                    board2 |-> phase.board2,
                    message |-> phase.message,
                    before |-> [p1 |-> phase.p1, p2 |-> phase.p2]]
    /\ UNCHANGED notPhaseVars

PhaseNext == PhasePair \/ PhaseResolveCombat \/ PhaseDamage

(***************************************************************************)
(* Tavern (simulator/tavern.py) over the shared Pool.  A unit of the shop  *)
(* is an instance: its name and the number of the instance.                *)
(***************************************************************************)
\* SHOP_SIZE_BY_TIER (tavern.py:15-17)
SHOP_SIZE_BY_TIER == [t \in 1..6 |->
    CASE t = 1 -> 3 [] t = 2 -> 4 [] t = 3 -> 4
      [] t = 4 -> 5 [] t = 5 -> 5 [] t = 6 -> 6]

\* UPGRADE_COSTS (tavern.py:19-21)
UPGRADE_COSTS == [t \in 2..6 |->
    CASE t = 2 -> 5 [] t = 3 -> 7 [] t = 4 -> 8 [] t = 5 -> 10 [] t = 6 -> 10]

\* dict.get(key, default)
dict_get(d, key, default) == IF key \in DOMAIN d THEN d[key] ELSE default

\* The fields of a Tavern (tavern.py:24-31) without the history of calls.
TavernFields(t) ==
    [shop |-> t.shop, tier |-> t.tier, is_frozen |-> t.is_frozen,
     upgrade_cost |-> t.upgrade_cost]

\* Tavern.__init__ (tavern.py:23-31); made counts the Minion instances built
\* so far, rerolls the calls of _reroll.
NewTavern ==
    [shop |-> <<>>, tier |-> 1, is_frozen |-> FALSE,
     upgrade_cost |-> dict_get(UPGRADE_COSTS, 2, 5), made |-> 0, rerolls |-> 0]

\* The names of the units of a shop, in shop order.
shop_names(shop) == [i \in 1..Len(shop) |-> shop[i].name]

\* tavern.py:56-57: one return_minion per unit of the shop, in shop order.
RECURSIVE return_all(_, _)
return_all(counts, names) ==
    IF names = <<>> THEN counts
    ELSE return_all(return_minion(counts, Head(names)).counts, Tail(names))

\* Tavern._return_shop_to_pool (tavern.py:54-58).
return_shop_to_pool(t, counts) ==
    [t |-> [t EXCEPT !.shop = <<>>],
     counts |-> return_all(counts, shop_names(t.shop)),
     returned |-> shop_names(t.shop)]

\* The Minion instances Pool.roll returned (pool.py:188-196), numbered from
\* made + 1 on.
new_instances(names, made) ==
    [i \in 1..Len(names) |-> [name |-> names[i], id |-> made + i]]

\* tavern.py:51: count = SHOP_SIZE_BY_TIER.get(self.tier, 6)
shop_size(tier) == dict_get(SHOP_SIZE_BY_TIER, tier, 6)

\* What random.choices can return inside the roll of a reroll that starts
\* with tavern t and pool counts.
reroll_choices(t, counts) ==
    LET returned == return_shop_to_pool(t, counts).counts IN
    random_choices(eligible_minions(returned, t.tier),
                   num_can_roll(returned, t.tier, shop_size(t.tier)))

\* Tavern._reroll (tavern.py:48-52) given the outcome chosen_names of the
\* random.choices call of Pool.roll.  An exception of roll leaves the method
\* before self.shop is assigned.
reroll(t, counts, chosen_names) ==
    LET ret == return_shop_to_pool(t, counts)
        count == shop_size(t.tier)
        r == roll(ret.counts, t.tier, chosen_names)
        t1 == [ret.t EXCEPT !.rerolls = @ + 1]
    IN  [t |-> IF r.raised = "none"
               THEN [t1 EXCEPT !.shop = new_instances(r.rolled, t.made),
                               !.made = @ + Len(r.rolled)]
               ELSE t1,
         counts |-> r.counts,
         returned |-> ret.returned,
         at_roll |-> ret.counts,
         roll_args |-> <<t.tier, count>>,
         rolled |-> r.rolled,
         raised |-> r.raised]

\* What a call that does not reroll reports.
no_reroll(t, counts) ==
    [t |-> t, counts |-> counts, returned |-> <<>>, at_roll |-> counts,
     roll_args |-> <<>>, rolled |-> <<>>, raised |-> "none"]

\* A mutant of start_of_turn_refresh: a frozen shop is unfrozen and rerolled.
start_of_turn_refresh_rerolls_frozen(t, counts, chosen_names) ==
    reroll([t EXCEPT !.is_frozen = FALSE], counts, chosen_names)

\* Tavern.start_of_turn_refresh (tavern.py:33-42).
start_of_turn_refresh(t, counts, chosen_names) ==
    IF t.is_frozen
    THEN no_reroll([t EXCEPT !.is_frozen = FALSE], counts)
    ELSE reroll(t, counts, chosen_names)

\* Tavern.freeze (tavern.py:60-62).
freeze(t) == [t EXCEPT !.is_frozen = TRUE]

\* A mutant of upgrade_tavern: the test is tier <= 6.
upgrade_tavern_past_six(t) ==
    IF t.tier <= 6
    THEN [t EXCEPT !.tier = @ + 1,
                   !.upgrade_cost = dict_get(UPGRADE_COSTS, t.tier + 2, 0)]
    ELSE t

\* Tavern.upgrade_tavern (tavern.py:64-70).
upgrade_tavern(t) ==
    IF t.tier < 6
    THEN [t EXCEPT !.tier = @ + 1,
                   !.upgrade_cost = dict_get(UPGRADE_COSTS, t.tier + 2, 0)]
    ELSE t

\* Tavern.reduce_upgrade_cost (tavern.py:72-75).
reduce_upgrade_cost(t) ==
    IF t.upgrade_cost > 0 THEN [t EXCEPT !.upgrade_cost = @ - 1] ELSE t

\* The record of the last call: what the Tavern and the Pool were before it,
\* and what its reroll did.
TavernCall(op, t, counts, r) ==
    [op |-> op, before |-> TavernFields(t), counts_before |-> counts,
     returned |-> r.returned, at_roll |-> r.at_roll,
     roll_args |-> r.roll_args, raised |-> r.raised]

TavernInit ==
    /\ tavern = NewTavern
    /\ tavern_call = [op |-> "init"]

\* The shop is a list attribute (tavern.py:24).  Pool.roll does not get as far
\* as returning a Minion, so a shop with units is one its caller fills: the
\* caller takes a copy of an eligible name out of the pool counts, builds the
\* Minion itself (as main.py:12-20 does) and appends it.
ShopStocked ==
    \E nm \in eligible_minions(available_counts, tavern.tier) :
        /\ Len(tavern.shop) < MaxShop
        /\ tavern.made < MaxMade
        /\ available_counts' = [available_counts EXCEPT ![nm] = @ - 1]
        /\ tavern' = [tavern EXCEPT
                        !.shop = Append(@, [name |-> nm, id |-> tavern.made + 1]),
                        !.made = @ + 1]
        /\ tavern_call' = TavernCall("stock", tavern, available_counts,
                                     no_reroll(tavern, available_counts))
        /\ UNCHANGED notTavernVars

\* A call tavern.start_of_turn_refresh().
StartOfTurnRefresh ==
    \E chosen_names \in reroll_choices(tavern, available_counts) :
      \E r \in {start_of_turn_refresh(tavern, available_counts, chosen_names)} :
        /\ tavern.rerolls < MaxRerolls
        /\ tavern' = r.t
        /\ available_counts' = r.counts
        /\ tavern_call' = TavernCall("start_of_turn_refresh", tavern,
                                     available_counts, r)
        /\ UNCHANGED notTavernVars

\* A call tavern.reroll_shop() (tavern.py:44-46).
RerollShop ==
    \E chosen_names \in reroll_choices(tavern, available_counts) :
      \E r \in {reroll(tavern, available_counts, chosen_names)} :
        /\ tavern.rerolls < MaxRerolls
        /\ tavern' = r.t
        /\ available_counts' = r.counts
        /\ tavern_call' = TavernCall("reroll_shop", tavern, available_counts, r)
        /\ UNCHANGED notTavernVars

\* A call tavern.freeze().
Freeze ==
    /\ tavern' = freeze(tavern)
    /\ tavern_call' = TavernCall("freeze", tavern, available_counts,
                                 no_reroll(tavern, available_counts))
    /\ UNCHANGED <<available_counts, notTavernVars>>

\* A call tavern.upgrade_tavern().
UpgradeTavern ==
    /\ tavern' = upgrade_tavern(tavern)
    /\ tavern_call' = TavernCall("upgrade_tavern", tavern, available_counts,
                                 no_reroll(tavern, available_counts))
    /\ UNCHANGED <<available_counts, notTavernVars>>

\* A call tavern.reduce_upgrade_cost().
ReduceUpgradeCost ==
    /\ tavern' = reduce_upgrade_cost(tavern)
    /\ tavern_call' = TavernCall("reduce_upgrade_cost", tavern,
                                 available_counts,
                                 no_reroll(tavern, available_counts))
    /\ UNCHANGED <<available_counts, notTavernVars>>

TavernNext ==
    \/ ShopStocked
    \/ StartOfTurnRefresh
    \/ RerollShop
    \/ Freeze
    \/ UpgradeTavern
    \/ ReduceUpgradeCost

(***************************************************************************)
(* The owner of the Tavern in the shop phase (simulator/game.py,           *)
(* simulator/player.py): the units bought to the board, and the alive      *)
(* flag.                                                                   *)
(***************************************************************************)
\* Player.__init__ (player.py:42, 54): alive, an empty board.
ShopInit == owner = [board |-> <<>>, alive |-> TRUE]

\* game.py:188-195: the unit at position idx is popped from the shop and
\* added to the board.
buy(t, o, idx) ==
    [t |-> [t EXCEPT !.shop = SubSeq(@, 1, idx - 1)
                              \o SubSeq(@, idx + 1, Len(@))],
     o |-> [o EXCEPT !.board = Append(@, t.shop[idx])]]

\* Player.game_over (player.py:66-71): one return_minion per unit of the
\* board, then alive = False.
game_over(o, counts) ==
    [o |-> [o EXCEPT !.alive = FALSE],
     counts |-> return_all(counts, shop_names(o.board))]

\* game.py:148: the shop phase gives a turn to living players only.
OwnerShops ==
    /\ owner.alive
    /\ TavernNext

\* The buy action of simulate_player_turn (game.py:186-196) with the outcome
\* idx of random.randint.
Buy ==
    \E idx \in 1..Len(tavern.shop) :
      \E r \in {buy(tavern, owner, idx)} :
        /\ owner.alive
        /\ Len(owner.board) < capacity
        /\ tavern' = r.t
        /\ owner' = r.o
        /\ UNCHANGED <<available_counts, tavern_call>>
        /\ UNCHANGED notShopVars

\* Player.take_damage (player.py:60-64) with damage that brings the health to
\* zero or below.
Eliminated ==
    \E r \in {game_over(owner, available_counts)} :
        /\ owner.alive
        /\ owner' = r.o
        /\ available_counts' = r.counts
        /\ UNCHANGED <<tavern, tavern_call>>
        /\ UNCHANGED notShopVars

ShopNext == OwnerShops \/ Buy \/ Eliminated

(***************************************************************************)
(* A Game (simulator/game.py): run_game alternates shop phases and combat  *)
(* phases while more than one player is alive.  Of a player the game keeps *)
(* what decides damage and elimination: number, health, tavern tier and    *)
(* the alive flag.  Game.turn is only logged and is left out.              *)
(***************************************************************************)
\* The shuffled lists random.shuffle can leave of the elements of S
\* (game.py:275).
shuffles(S) ==
    {f \in [1..Cardinality(S) -> S] :
        \A i, j \in 1..Cardinality(S) : i # j => f[i] # f[j]}

\* Game.alive_players (game.py:107-110) as indexes into Game.players.
alive_players(ps) == {i \in 1..Len(ps) : ps[i].alive}

\* One iteration of the pairing loop (game.py:278-297) for the players at
\* positions a and b of Game.players, the combat boards left as tiers1 and
\* tiers2.
pairing(ps, a, b, tiers1, tiers2) ==
    LET message == winner_message([board1 |-> tiers1, board2 |-> tiers2],
                                  player_name(ps[a].number),
                                  player_name(ps[b].number))
        r == apply_combat_damage(ps[a], ps[b], message, tiers1, tiers2)
    IN  [ps EXCEPT ![a] = r.p1, ![b] = r.p2]

GameInit ==
    game = [pc |-> "new", players |-> <<>>, phase |-> "SHOP", alive |-> <<>>,
            i |-> 0]

\* Game.__init__ (game.py:70-101): num_players players named Player 1 ..
\* Player num_players, each at health 30 and tavern tier 1, phase SHOP.
NewGame ==
    \E num_players \in 0..MaxGamePlayers :
        /\ game.pc = "new"
        /\ game' = [game EXCEPT
                      !.pc = "run",
                      !.players = [idx \in 1..num_players |->
                                      NewGamePlayer(idx, 1)],
                      !.phase = "SHOP"]
        /\ UNCHANGED notGameVars

\* run_game (game.py:119-125) with shop_phase (game.py:143-152): each living
\* player takes a turn, in which the tavern may be upgraded by one tier
\* (game.py:201-207).
GameShopPhase ==
    \E upgraded \in SUBSET alive_players(game.players) :
        /\ game.pc = "run"
        /\ Cardinality(alive_players(game.players)) > 1
        /\ game.phase = "SHOP"
        /\ \A n \in upgraded : game.players[n].tier < MaxGameTier
        /\ game' = [game EXCEPT
                      !.players = [n \in 1..Len(game.players) |->
                          IF n \in upgraded
                          THEN [game.players[n] EXCEPT !.tier = @ + 1]
                          ELSE game.players[n]],
                      !.phase = "COMBAT"]
        /\ UNCHANGED notGameVars

\* run_game (game.py:119, 126-127) and combat_phase up to the shuffle
\* (game.py:270-275).
GameCombatStart ==
    \E order \in shuffles(alive_players(game.players)) :
        /\ game.pc = "run"
        /\ Cardinality(alive_players(game.players)) > 1
        /\ game.phase = "COMBAT"
        /\ game' = [game EXCEPT !.pc = "combat", !.alive = order, !.i = 0]
        /\ UNCHANGED notGameVars

\* game.py:278-297: one iteration of `for i in range(0, len(alive) - 1, 2)`.
\* What is left of the combat boards is drawn here: resolve_combat returns
\* with at least one combat board empty.
GamePairing ==
    \E tiers1 \in BoardTiers, tiers2 \in BoardTiers :
        /\ game.pc = "combat"
        /\ game.i < Len(game.alive) - 1
        /\ tiers1 = <<>> \/ tiers2 = <<>>
        /\ game' = [game EXCEPT
                      !.players = pairing(game.players,
                                          game.alive[game.i + 1],
                                          game.alive[game.i + 2],
                                          tiers1, tiers2),
                      !.i = @ + 2]
        /\ UNCHANGED notGameVars

\* game.py:299-304 and run_game (game.py:128-129): the loop is over, the odd
\* player is only logged, combat_phase returns (its locals are gone) and the
\* phase is SHOP again.
GameCombatEnd ==
    /\ game.pc = "combat"
    /\ game.i >= Len(game.alive) - 1
    /\ game' = [game EXCEPT !.pc = "run", !.phase = "SHOP",
                            !.alive = <<>>, !.i = 0]
    /\ UNCHANGED notGameVars

\* run_game (game.py:119, 132-138): the loop ends when at most one player
\* is alive.
GameCompleted ==
    /\ game.pc = "run"
    /\ Cardinality(alive_players(game.players)) <= 1
    /\ game' = [game EXCEPT !.pc = "completed"]
    /\ UNCHANGED notGameVars

GameNext ==
    \/ NewGame
    \/ GameShopPhase
    \/ GameCombatStart
    \/ GamePairing
    \/ GameCombatEnd
    \/ GameCompleted

(***************************************************************************)
(* Specifications.                                                         *)
(***************************************************************************)
Init == PoolInit /\ BusInit /\ BoardInit /\ CombatInit /\ PhaseInit
        /\ TavernInit /\ TwinInit /\ ShopInit /\ GameInit

SpecPool == Init /\ [][PoolNext]_vars

SpecBus == Init /\ [][BusNext]_vars

SpecBoard == Init /\ [][BoardNext]_vars

SpecCombat == Init /\ [][CombatNext]_vars

SpecPhase == Init /\ [][PhaseNext]_vars

SpecTavern == Init /\ [][TavernNext]_vars

SpecTwin == Init /\ [][TwinNext]_vars

SpecShop == Init /\ [][ShopNext]_vars

SpecGame == Init /\ [][GameNext]_vars

\* resolve_combat is sequential code: once called it takes its next step
\* whenever it has one.  The steps other than an iteration of the deque loop:
CombatGoesOn == DequeBreak \/ DequeExit \/ IndexTurn \/ CombatReturn

\* WF_vars(DequeTurn) written out.  DequeTurn is enabled exactly when the
\* while test of combat.py:49 holds and the defending board has a living
\* unit, which is in_deque_loop(players, combat, TRUE): a target can then be
\* picked, and the step changes combat.iteration.
DequeTurnGoesOn ==
    \/ []<>(~in_deque_loop(players, combat, TRUE))
    \/ []<><<DequeTurn>>_vars

SpecCombatRuns ==
    Init /\ [][CombatNext]_vars /\ WF_vars(CombatGoesOn) /\ DequeTurnGoesOn

(***************************************************************************)
(* Properties of the Pool, checked under SpecPool.                         *)
(***************************************************************************)
\* The eligible set of the last roll call, taken at call time.
CallEligible == eligible_minions(pool_call.before, pool_call.tavern_tier)

\* C1: after any sequence of roll and return_minion calls every blueprint name
\* of the pool has 0 <= available_counts[name] <= the initial copy count of
\* its tier.
C1_CountsWithinBounds ==
    \A nm \in DOMAIN available_counts :
        /\ 0 <= available_counts[nm]
        /\ available_counts[nm] <= COPIES_PER_TIER[minion_blueprints[nm]]

\* C1 witness: a roll has taken the last copy of a name (lower bound reached).
C1_Witness ==
    /\ pool_call.op = "roll"
    /\ \E nm \in DOMAIN available_counts :
          pool_call.before[nm] = 1 /\ available_counts[nm] = 0

\* C2: a roll call made when every eligible blueprint has exactly one copy left
\* never draws the same blueprint name twice.
C2_NoDuplicateDraw ==
    ( /\ pool_call.op = "roll"
      /\ \A nm \in CallEligible : pool_call.before[nm] = 1 )
    => NoDuplicates(pool_call.chosen_names)

\* C3: roll(tavern_tier, n) returns exactly min(n, E) units, E the number of
\* eligible blueprints at call time, each of an eligible blueprint.
C3_RollReturnsMinOfNAndEligible ==
    pool_call.op = "roll" =>
        /\ pool_call.raised = "none"
        /\ Len(pool_call.rolled) =
               Min(pool_call.num_to_roll, Cardinality(CallEligible))
        /\ Range(pool_call.rolled) \subseteq CallEligible

\* C4: return_minion of a name known to the pool adds exactly one copy when
\* the count is below the initial copy count, changes nothing when it equals
\* it, and never touches another name.
C4_ReturnKnownName ==
    ( pool_call.op = "return_minion"
      /\ pool_call.minion_name \in DOMAIN pool_call.before )
    => LET nm  == pool_call.minion_name
           max == COPIES_PER_TIER[minion_blueprints[nm]]
       IN  /\ pool_call.before[nm] < max =>
                 available_counts[nm] = pool_call.before[nm] + 1
           /\ pool_call.before[nm] = max =>
                 available_counts[nm] = pool_call.before[nm]
           /\ \A other \in DOMAIN available_counts \ {nm} :
                 available_counts[other] = pool_call.before[other]

\* C4 witness: a copy taken earlier has just been returned.
C4_Witness ==
    /\ pool_call.op = "return_minion"
    /\ pool_call.minion_name \in DOMAIN pool_call.before
    /\ available_counts[pool_call.minion_name] =
           pool_call.before[pool_call.minion_name] + 1

\* C5: return_minion of a name that is not in the pool raises nothing and
\* leaves every count as it was.
C5_ReturnUnknownName ==
    ( pool_call.op = "return_minion"
      /\ pool_call.minion_name \notin DOMAIN pool_call.before )
    => /\ pool_call.raised = "none"
       /\ available_counts = pool_call.before

\* C5 witness: an unknown name was returned to a pool that has handed out
\* copies.
C5_Witness ==
    /\ pool_call.op = "return_minion"
    /\ pool_call.minion_name \in UnknownNames
    /\ \E nm \in DOMAIN available_counts :
          available_counts[nm] < COPIES_PER_TIER[minion_blueprints[nm]]

\* C6: roll with no eligible blueprint returns the empty list, raises nothing
\* and leaves every count as it was.
C6_RollNothingEligible ==
    ( pool_call.op = "roll" /\ CallEligible = {} )
    => /\ pool_call.rolled = <<>>
       /\ pool_call.raised = "none"
       /\ available_counts = pool_call.before

\* C6 witness: a roll of at least one unit was asked when nothing was eligible.
C6_Witness ==
    /\ pool_call.op = "roll"
    /\ CallEligible = {}
    /\ pool_call.num_to_roll > 0

(***************************************************************************)
(* Properties of the EventBus, checked under SpecBus.                      *)
(***************************************************************************)
\* The live list of the event type of the emit in progress (or the last one).
LiveList == Subscribed(listeners, emit_type)

\* C7: emit invokes every handler subscribed to event.type at emit time, once
\* per subscription and in the order the subscriptions were made, and no
\* handler subscribed only to other event types: a list only ever grows at its
\* end, and an emit that has returned has invoked exactly the list its event
\* type had when it was called.
C7_EmitInvokesSubscribersInOrder ==
    /\ [](emit_outcome = "returned" => emit_invoked = emit_before)
    /\ [][\A t \in EventTypes :
            Len(Subscribed(listeners', t)) > Len(Subscribed(listeners, t))
            => /\ Len(Subscribed(listeners', t)) =
                      Len(Subscribed(listeners, t)) + 1
               /\ IsPrefix(Subscribed(listeners, t), Subscribed(listeners', t))
         ]_vars

\* C7 witness: an emit has returned after invoking two different handlers
\* while the other event type had subscribers of its own.
C7_Witness ==
    /\ emit_outcome = "returned"
    /\ Len(emit_invoked) >= 2
    /\ emit_invoked[1] # emit_invoked[2]
    /\ \E t \in EventTypes \ {emit_type} : Subscribed(listeners, t) # <<>>

\* C8: when handlers subscribe or unsubscribe for the emitted event type
\* during a dispatch, the pass still invokes exactly the list as it was when
\* emit was called; the change shows only in the list the next emit starts
\* from.
C8_DispatchPassUsesListAtEmitTime ==
    /\ (emit_outcome \in {"running", "returned"} /\ LiveList # emit_before)
       => /\ IsPrefix(emit_invoked, emit_before)
          /\ emit_outcome = "returned" => emit_invoked = emit_before
    /\ (emit_pc = "dispatching" /\ emit_idx = 0) => emit_before = LiveList

\* C8 witness: the pass has ended; a handler unsubscribed during it was still
\* invoked, and a subscription made during it was not invoked (the live list
\* holds a callback more often than the pass invoked it).
C8_Witness ==
    /\ emit_outcome = "returned"
    /\ \E cb \in Range(emit_invoked) : cb \notin Range(LiveList)
    /\ \E cb \in Callbacks : Count(LiveList, cb) > Count(emit_invoked, cb)

\* C9: a handler that raises does not abort the dispatch: emit never lets the
\* exception out, and when it returns every handler after the failing one has
\* been invoked.
C9_FailingHandlerIsIsolated ==
    emit_fault > 0
    => /\ emit_outcome # "propagated"
       /\ emit_outcome = "returned"
          => /\ Len(emit_invoked) = Len(emit_before)
             /\ \A i \in (emit_fault + 1)..Len(emit_before) :
                   emit_invoked[i] = emit_before[i]

\* C9 witness: emit has returned, a handler raised and a later one was invoked.
C9_Witness ==
    /\ emit_outcome = "returned"
    /\ emit_fault > 0
    /\ emit_fault < Len(emit_invoked)

(***************************************************************************)
(* Properties of the live Board, checked under SpecBoard.                  *)
(***************************************************************************)
\* C10: add_minion on a board that holds capacity units always fails and
\* changes nothing: the call raises, the minion list, every unit of the board,
\* the subscriptions of the owner's bus and the owner's counter are as before,
\* and the rejected unit is as constructed (effect not attached, no catch-up
\* bonus).
C10_AddToFullBoardFails ==
    [][ (Len(minions) = capacity /\ board_call'.op = "add_minion")
        => /\ board_call'.raised = "ValueError"
           /\ minions' = minions
           /\ units' = units
           /\ listeners' = listeners
           /\ permanent_buffs' = permanent_buffs
           /\ board_call'.unit_after \in {EternalKnight, PlainMinion}
      ]_vars

\* C10 witness: a unit with the effect has just been rejected by a full board
\* whose owner has a catch-up bonus to give.
C10_Witness ==
    /\ board_call.op = "add_minion"
    /\ board_call.raised = "ValueError"
    /\ Len(minions) = capacity
    /\ board_call.unit_after.ek
    /\ permanent_buffs > 0

\* The units of the live board that are alive, in board order, as a
\* remove_dead_minions call starting in this state finds them.
AliveAtCall == SelectAlive(minions, units)

\* The units of the live board with health <= 0, in board order.
DeadAtCall == SelectDead(minions, units)

\* C13: when remove_dead_minions removes one dead unit that has the
\* 'eternal_knight' effect, every other unit of the board with the effect is
\* +1 attack and +1 health after the call, and the units without the effect
\* have the attack and health they had.
C13_KnightDeathBuffsOtherKnights ==
    [][ ( /\ board_call'.op = "remove_dead_minions"
          /\ Len(DeadAtCall) = 1
          /\ units[DeadAtCall[1]].ek )
        => /\ Len(minions') = Len(AliveAtCall)
           /\ \A i \in 1..Len(AliveAtCall) :
                LET before == units[AliveAtCall[i]]
                    after  == units'[minions'[i]]
                    gain   == IF before.ek THEN 1 ELSE 0
                IN  /\ after.ek = before.ek
                    /\ after.attack = before.attack + gain
                    /\ after.health = before.health + gain
      ]_vars

\* C14: a unit with the effect that add_minion puts on the live board of a
\* player whose counter is c is the constructed 4/1 unit with +c attack and
\* +c health when add_minion returns, it is the last unit of the board, and
\* the counter and the other units are untouched by the call.
C14_AttachAppliesCatchUp ==
    [][ ( /\ board_call'.op = "add_minion"
          /\ board_call'.raised = "none"
          /\ board_call'.unit_after.ek )
        => /\ board_call'.unit_after.attack
                = EternalKnight.attack + permanent_buffs
           /\ board_call'.unit_after.health
                = EternalKnight.health + permanent_buffs
           /\ Len(minions') = Len(minions) + 1
           /\ units'[minions'[Len(minions')]] = board_call'.unit_after
           /\ permanent_buffs' = permanent_buffs
           /\ \A i \in 1..Len(minions) : units'[minions'[i]] = units[minions[i]]
      ]_vars

\* C14 witness: a unit with the effect has just joined the board of a player
\* with a counter of 1 and stands there as 5/2.
C14_Witness ==
    /\ board_call.op = "add_minion"
    /\ board_call.raised = "none"
    /\ board_call.unit_after.ek
    /\ permanent_buffs = 1
    /\ minions # <<>>
    /\ units[minions[Len(minions)]].attack = 5
    /\ units[minions[Len(minions)]].health = 2

\* C15: the player's 'eternal_knight_deaths' counter equals the number of the
\* player's units with the effect that have died and been removed from the
\* live board by remove_dead_minions.
C15_CounterEqualsKnightDeaths == permanent_buffs = board_call.died

\* Whether the effect of unit id is attached: it holds the bus and its
\* handler is subscribed to MINION_DIES.
Attached(id) ==
    /\ units[id].bus
    /\ id \in Range(Subscribed(listeners, MINION_DIES))

Detached(id) ==
    /\ ~units[id].bus
    /\ id \notin Range(Subscribed(listeners, MINION_DIES))

\* C16: a unit's effects are attached exactly while the unit is on the live
\* board: every unit of the board that has the effect is attached, and every
\* unit that is not on the board is detached.
C16_AttachedExactlyWhileOnBoard ==
    \A id \in UnitIds :
        /\ (id \in Range(minions) /\ units[id].ek) => Attached(id)
        /\ id \notin Range(minions) => Detached(id)

\* C17: when remove_dead_minions returns, no unit that had health <= 0 when
\* the call began is on the board, no unit of the board has health <= 0, and
\* the units that were alive when the call began are on the board in their
\* original relative order.
C17_RemoveDeadLeavesExactlyTheLiving ==
    [][ board_call'.op = "remove_dead_minions"
        => /\ Len(minions') = Len(AliveAtCall)
           /\ \A i \in 1..Len(minions') : is_alive(units'[minions'[i]])
           /\ \A i \in 1..Len(AliveAtCall) :
                i <= Len(minions')
                => /\ units'[minions'[i]].ek = units[AliveAtCall[i]].ek
                   /\ units'[minions'[i]].tier = units[AliveAtCall[i]].tier
      ]_vars

(***************************************************************************)
(* Properties of a combat pairing, checked under SpecCombat.               *)
(***************************************************************************)
\* The live units of player s, in board order, as a list of <<attack, health>>.
Roster(p) == [i \in 1..Len(p.board) |->
                <<p.w.units[p.board[i]].attack, p.w.units[p.board[i]].health>>]

\* C11: when resolve_combat has returned, each player's live board holds the
\* units it held when the boards were cloned, in the same order, and every
\* live unit has the attack and health it had then.
C11_CombatLeavesLiveRostersAlone ==
    combat.pc = "returned"
    => \A s \in Sides :
          /\ players[s].board = combat.entry[s].board
          /\ Roster(players[s]) = Roster(combat.entry[s])

\* C12: while resolve_combat runs on the cloned boards, no handler
\* subscribed on a player's live bus is invoked, and each player's counter is
\* what it was when combat began.
C12_CombatFiresNoPersistentEvent ==
    combat.pc # "idle"
    => /\ combat.invoked = 0
       /\ \A s \in Sides : players[s].w.buffs = combat.entry[s].w.buffs

\* The side _determineOrder named.
OrderSide == IF combat.order = "board1 goes first" THEN 1 ELSE 2

\* C18: the board with strictly more units is the first attacker: when one
\* board entered combat with more units than the other, the order names it
\* and the first attacker of the combat comes from it; the order names the
\* other board, or is left to the coin, only when the counts do not say so.
C18_LargerBoardAttacksFirst ==
    combat.pc # "idle"
    => LET n1 == Len(combat.entry[1].board)
           n2 == Len(combat.entry[2].board)
       IN  /\ combat.order \in {"board1 goes first", "board2 goes first"}
           /\ n1 > n2 => combat.order = "board1 goes first"
           /\ n1 < n2 => combat.order = "board2 goes first"
           /\ combat.iteration = 1 => combat.attacking = OrderSide

\* C18 witness: board 2 entered with more units and has made the first attack.
C18_Witness ==
    /\ combat.iteration = 1
    /\ Len(combat.entry[1].board) < Len(combat.entry[2].board)
    /\ combat.attacking = 2

\* C19: in the deque loop the turn alternates: when one side's queue
\* supplied the attacker of an iteration, the other side's queue supplies the
\* attacker of the next iteration.
C19_TurnAlternates ==
    [][ ( /\ combat.pc = "deque_loop"
          /\ combat.iteration >= 1
          /\ combat.loop = "deque"
          /\ combat'.loop = "deque"
          /\ combat'.iteration = combat.iteration + 1 )
        => combat'.attacking # combat.attacking
      ]_vars

\* C20: in an exchange the target loses the attack the attacker had before
\* the exchange and the attacker loses the attack the target had before it,
\* whether or not either of them dies; no attack changes, and no other unit
\* of either player changes.
C20_ExchangeIsSimultaneous ==
    combat.exch.side # 0
    => LET e == combat.exch
           s == e.side
           d == 3 - e.side
       IN  /\ e.after[d][e.target].health
                = e.before[d][e.target].health - e.before[s][e.attacker].attack
           /\ e.after[s][e.attacker].health
                = e.before[s][e.attacker].health - e.before[d][e.target].attack
           /\ e.after[d][e.target].attack = e.before[d][e.target].attack
           /\ e.after[s][e.attacker].attack = e.before[s][e.attacker].attack
           /\ \A p \in Sides :
                /\ DOMAIN e.after[p] = DOMAIN e.before[p]
                /\ \A id \in DOMAIN e.before[p] :
                     (<<p, id>> # <<s, e.attacker>> /\ <<p, id>> # <<d, e.target>>)
                     => e.after[p][id] = e.before[p][id]

\* C20 witness: an exchange in which attacker and target both died.
C20_Witness ==
    /\ combat.exch.side # 0
    /\ combat.exch.after[combat.exch.side][combat.exch.attacker].health <= 0
    /\ combat.exch.after[3 - combat.exch.side][combat.exch.target].health <= 0
    /\ combat.exch.before[combat.exch.side][combat.exch.attacker].health > 0
    /\ combat.exch.before[3 - combat.exch.side][combat.exch.target].health > 0

\* C21: resolve_combat returns one of three results; it names a side the
\* winner exactly when that side's combat board still holds a unit and the
\* other side's holds none, it reports a tie exactly when neither board holds
\* a unit, and it never returns with units on both boards.
C21_ResultMatchesSurvivors ==
    /\ combat.result \in {"none", "board1 wins", "board2 wins", "tie"}
    /\ combat.result = "none" <=> combat.pc # "returned"
    /\ combat.pc = "returned"
       => /\ ~(combat.board1 # <<>> /\ combat.board2 # <<>>)
          /\ combat.result = "board1 wins"
               <=> (combat.board1 # <<>> /\ combat.board2 = <<>>)
          /\ combat.result = "board2 wins"
               <=> (combat.board2 # <<>> /\ combat.board1 = <<>>)
          /\ combat.result = "tie"
               <=> (combat.board1 = <<>> /\ combat.board2 = <<>>)

\* C21 witness: side 2 has won a combat that was fought, with a living unit
\* left on its board.
C21_Witness ==
    /\ combat.pc = "returned"
    /\ combat.result = "board2 wins"
    /\ combat.iteration >= 2
    /\ \E id \in Range(combat.board2) : is_alive(players[2].w.units[id])

\* The units of player s are what they were when the boards were cloned, and
\* the copies are what the originals were.
NoUnitTookDamage(s) ==
    /\ \A id \in Range(combat.entry[s].board) :
          /\ players[s].w.units[id] = combat.entry[s].w.units[id]
          /\ players[s].w.units[CopyId(id)] = combat.entry[s].w.units[id]

\* C22: a combat entered with exactly one empty board returns the side with
\* units as the winner, and a combat entered with two empty boards returns a
\* tie; in both cases there is no exchange and no unit takes damage.
C22_EmptyBoardAtEntry ==
    ( /\ combat.pc = "returned"
      /\ combat.entry[1].board = <<>> \/ combat.entry[2].board = <<>> )
    => /\ combat.iteration = 0
       /\ combat.exch = NoExchange
       /\ \A s \in Sides : NoUnitTookDamage(s)
       /\ combat.result =
            IF combat.entry[1].board # <<>> THEN "board1 wins"
            ELSE IF combat.entry[2].board # <<>> THEN "board2 wins"
            ELSE "tie"

\* C22 witness: side 2 entered with units, side 1 with none, and side 2 won.
C22_Witness ==
    /\ combat.pc = "returned"
    /\ combat.entry[1].board = <<>>
    /\ Len(combat.entry[2].board) = 2
    /\ combat.result = "board2 wins"

\* The unit player s entered a single-unit combat with.
EntryUnit(s) == combat.entry[s].w.units[combat.entry[s].board[1]]

\* C23: a combat of two single-unit boards whose units have the same attack
\* and the same health returns a tie, whichever side attacks first.
C23_MirrorMatchIsTie ==
    ( /\ combat.pc = "returned"
      /\ Len(combat.entry[1].board) = 1
      /\ Len(combat.entry[2].board) = 1
      /\ EntryUnit(1).attack = EntryUnit(2).attack
      /\ EntryUnit(1).health = EntryUnit(2).health )
    => combat.result = "tie"

\* C23 witness: two 4/1 units killed each other in the first exchange of a
\* combat in which the coin made side 2 attack first.
C23_Witness ==
    /\ combat.pc = "returned"
    /\ Len(combat.entry[1].board) = 1
    /\ Len(combat.entry[2].board) = 1
    /\ EntryUnit(1) = EntryUnit(2)
    /\ is_alive(EntryUnit(1))
    /\ combat.order = "board2 goes first"
    /\ combat.iteration = 1
    /\ combat.exch.side = 2
    /\ combat.result = "tie"

(***************************************************************************)
(* Properties of the damage of a pairing, checked under SpecPhase.         *)
(***************************************************************************)
\* C25: after a combat with a winner the loser's health is lower by the
\* winner's tavern tier plus the tiers of the units left on the winner's
\* combat board, and the winner's health is unchanged; after a tie both
\* players have the health they had.
C25_LoserTakesTierDamage ==
    phase.pc = "done"
    => LET before == phase.before
           result == winner([board1 |-> phase.board1, board2 |-> phase.board2])
       IN  /\ result = "board1 wins"
              => /\ phase.p1.health = before.p1.health
                 /\ phase.p2.health = before.p2.health
                       - (before.p1.tier + sum_tiers(phase.board1))
           /\ result = "board2 wins"
              => /\ phase.p2.health = before.p2.health
                 /\ phase.p1.health = before.p1.health
                       - (before.p2.tier + sum_tiers(phase.board2))
           /\ result = "tie"
              => /\ phase.p1.health = before.p1.health
                 /\ phase.p2.health = before.p2.health

RerollSize(tier) ==
    CASE tier = 1 -> 3 [] tier = 2 -> 4 [] tier = 3 -> 4
      [] tier = 4 -> 5 [] tier = 5 -> 5 [] tier = 6 -> 6

\* The instance numbers of the units of a shop.
ShopIds(shop) == {shop[i].id : i \in 1..Len(shop)}

\* C27: a reroll returns each unit of the shop to the Pool once, then makes
\* one Pool.roll on the counts it then finds, at the current tier and with n
\* from the table, and the shop becomes what that roll returns: at most n
\* units, none of them an instance of the previous shop.
C27_RerollReturnsThenDraws ==
    (tavern_call.op # "init" /\ tavern_call.roll_args # <<>>)
    => /\ tavern_call.returned = shop_names(tavern_call.before.shop)
       /\ tavern_call.at_roll =
              return_all(tavern_call.counts_before, tavern_call.returned)
       /\ tavern_call.roll_args =
              <<tavern_call.before.tier, RerollSize(tavern_call.before.tier)>>
       /\ tavern_call.raised = "none"
       /\ Len(tavern.shop) <= RerollSize(tavern_call.before.tier)
       /\ ShopIds(tavern.shop) \cap ShopIds(tavern_call.before.shop) = {}

\* C28: the tier is in 1..6; upgrade_tavern adds one to a tier below 6 and
\* at tier 6 changes neither the tier nor the upgrade cost.
C28_TierStaysWithinOneToSix ==
    /\ tavern.tier \in 1..6
    /\ tavern_call.op = "upgrade_tavern"
       => IF tavern_call.before.tier < 6
          THEN tavern.tier = tavern_call.before.tier + 1
          ELSE /\ tavern.tier = tavern_call.before.tier
               /\ tavern.upgrade_cost = tavern_call.before.upgrade_cost

\* upgrade_tavern was called at tier 6.
C28_Witness ==
    /\ tavern_call.op = "upgrade_tavern"
    /\ tavern_call.before.tier = 6
    /\ tavern.tier = 6

(***************************************************************************)
(* Properties of the Board's size and of its death events, checked under   *)
(* SpecBoard.                                                              *)
(***************************************************************************)
\* C29: whatever add_minion, remove_minion and remove_dead_minions calls
\* were made, the live board holds at most capacity units, and so does the
\* combat copy clone_for_combat makes of it.
C29_BoardWithinCapacity ==
    /\ Len(minions) <= capacity
    /\ Len(clone_for_combat(TheBoard).minions) <= capacity

\* add_minion was refused on a board of capacity units, which clone_for_combat
\* copies unit for unit.
C29_Witness ==
    /\ board_call.op = "add_minion"
    /\ board_call.raised = "ValueError"
    /\ Len(minions) = capacity
    /\ Len(clone_for_combat(TheBoard).minions) = capacity

\* The callback of unit id is in the list of MINION_DIES of world w.
SubscribedIn(w, id) == id \in Range(Subscribed(w.ls, MINION_DIES))

\* C30: for each dead unit remove_dead_minions goes through, one death event
\* with that unit as source is emitted; a unit with an effect has its callback
\* subscribed when the event is emitted and when the emit returns, and it is
\* unsubscribed after that.
C30_DeathEventBeforeDetach ==
    [][board_call'.op = "remove_dead_minions"
       => LET dead_minions == SelectDead(minions, units)
              steps == dead_steps(TheBoard.w, dead_minions, 1)
          IN  /\ Len(steps) = Len(dead_minions)
              /\ dead_loop(TheBoard.w, dead_minions, 1)
                    = (IF steps = <<>> THEN TheBoard.w
                       ELSE steps[Len(steps)].after_detach)
              /\ \A k \in 1..Len(steps) :
                    LET source == dead_minions[k] IN
                    /\ steps[k].events
                          = <<[type |-> MINION_DIES, source |-> source]>>
                    /\ units[source].ek
                       => /\ SubscribedIn(steps[k].at_emit, source)
                          /\ SubscribedIn(steps[k].after_emit, source)
                    /\ ~SubscribedIn(steps[k].after_detach, source)]_vars

(***************************************************************************)
(* Properties of two runs of one combat, checked under SpecTwin.           *)
(***************************************************************************)
\* What a run ends with: the result, and the units left on the two combat
\* boards in board order, each with its attack and health.
RunOutcome(r) ==
    [result |-> r.c.result,
     board1 |-> [i \in 1..Len(r.c.board1) |->
                    [unit |-> r.c.board1[i],
                     attack |-> r.ps[1].w.units[r.c.board1[i]].attack,
                     health |-> r.ps[1].w.units[r.c.board1[i]].health]],
     board2 |-> [i \in 1..Len(r.c.board2) |->
                    [unit |-> r.c.board2[i],
                     attack |-> r.ps[2].w.units[r.c.board2[i]].attack,
                     health |-> r.ps[2].w.units[r.c.board2[i]].health]]]

QueueOf(c, s) == IF s = 1 THEN c.attackers1 ELSE c.attackers2

\* s without the elements that are not in the set keep.
RECURSIVE Restrict(_, _)
Restrict(s, keep) ==
    IF s = <<>> THEN <<>>
    ELSE IF Head(s) \in keep
         THEN <<Head(s)>> \o Restrict(Tail(s), keep)
         ELSE Restrict(Tail(s), keep)

\* The step is an iteration of the deque loop with an exchange.
IsDequeIteration ==
    /\ combat.pc = "deque_loop"
    /\ combat'.loop = "deque"
    /\ combat'.iteration = combat.iteration + 1

\* C31: the queues start as the boards; in an iteration of the deque loop
\* the attacker is the front of its side's queue; an attacker with health > 0
\* after the exchange is the back of that queue afterwards and one with
\* health <= 0 is not in it; the units that stay keep their order in both
\* queues; so a unit attacks twice in a row for its side only when it is the
\* only unit of its queue.
C31_AttackersQueueIsFifo ==
    [][ /\ (combat.pc = "idle" /\ combat'.pc = "deque_loop")
           => /\ combat'.attackers1 = combat'.board1
              /\ combat'.attackers2 = combat'.board2
        /\ IsDequeIteration
           => LET e == combat'.exch
                  s == e.side
                  d == 3 - e.side
                  before == QueueOf(combat, s)
                  after == QueueOf(combat', s)
              IN  /\ e.attacker = Head(before)
                  /\ IF e.after[s][e.attacker].health > 0
                     THEN /\ after # <<>>
                          /\ after[Len(after)] = e.attacker
                          /\ SubSeq(after, 1, Len(after) - 1)
                                = Restrict(Tail(before),
                                           Range(after) \ {e.attacker})
                     ELSE /\ e.attacker \notin Range(after)
                          /\ after = Restrict(Tail(before), Range(after))
                  /\ QueueOf(combat', d)
                        = Restrict(QueueOf(combat, d),
                                   Range(QueueOf(combat', d)))
                  /\ (combat.exch.side = s /\ combat.exch.attacker = e.attacker
                         /\ combat.loop = "deque")
                     => before = <<e.attacker>>
      ]_vars

\* An attacker survived its exchange and stands behind the other unit of its
\* side's queue.
C31_Witness ==
    /\ combat.loop = "deque"
    /\ combat.exch.side # 0
    /\ Len(QueueOf(combat, combat.exch.side)) = 2
    /\ QueueOf(combat, combat.exch.side)[2] = combat.exch.attacker
    /\ combat.iteration >= 1

\* Every unit of the two boards had health > 0 when the combat started.
EntryAllAlive ==
    /\ combat.entry # <<>>
    /\ \A s \in Sides : \A id \in Range(combat.entry[s].board) :
          combat.entry[s].w.units[id].health > 0

\* The combat board of side s in the record c of a Combat.
BoardOf(c, s) == IF s = 1 THEN c.board1 ELSE c.board2

\* C32: when the boards entered the combat with living units only, then at
\* the while test of either loop no unit of a queue or of a combat board has
\* health <= 0, and each side's queue holds the units of that side's board,
\* each once.
C32_QueuesAndBoardsHoldTheLiving ==
    (combat.pc \in {"deque_loop", "index_loop"} /\ EntryAllAlive)
    => \A s \in Sides :
          /\ \A id \in Range(BoardOf(combat, s)) \cup Range(QueueOf(combat, s)) :
                players[s].w.units[id].health > 0
          /\ Range(QueueOf(combat, s)) = Range(BoardOf(combat, s))
          /\ Len(QueueOf(combat, s)) = Len(BoardOf(combat, s))

\* After an exchange in which a unit died both sides still have units, and
\* the loop is at its while test.
C32_Witness ==
    /\ combat.pc = "deque_loop"
    /\ EntryAllAlive
    /\ combat.iteration >= 1
    /\ \E s \in Sides : Len(BoardOf(combat, s)) < Len(combat.entry[s].board)
    /\ \A s \in Sides : BoardOf(combat, s) # <<>>
    /\ \A s \in Sides : Range(QueueOf(combat, s)) = Range(BoardOf(combat, s))

(***************************************************************************)
(* Termination of resolve_combat, checked under SpecCombatRuns.            *)
(***************************************************************************)
\* Every unit of the two boards had attack >= 1 and health >= 1 when the
\* combat started.
EntryAllArmed ==
    /\ EntryAllAlive
    /\ \A s \in Sides : \A id \in Range(combat.entry[s].board) :
          combat.entry[s].w.units[id].attack >= 1

\* The health the units of the two boards had together at entry.
RECURSIVE SumHealth(_, _)
SumHealth(ms, us) ==
    IF ms = <<>> THEN 0 ELSE us[Head(ms)].health + SumHealth(Tail(ms), us)

EntryHealth ==
    SumHealth(combat.entry[1].board, combat.entry[1].w.units)
    + SumHealth(combat.entry[2].board, combat.entry[2].w.units)

\* C33: a resolve_combat that started on boards whose units all have
\* attack >= 1 and health >= 1 returns, and it makes no more exchanges than
\* the units had health at entry.
C33_ResolveCombatTerminates ==
    /\ (combat.pc = "deque_loop" /\ EntryAllArmed) ~> (combat.pc = "returned")
    /\ [](EntryAllArmed => combat.iteration <= EntryHealth)

\* A combat of two boards of two living units each returned after at least
\* two exchanges.
C33_Witness ==
    /\ combat.pc = "returned"
    /\ EntryAllArmed
    /\ \A s \in Sides : Len(combat.entry[s].board) = 2
    /\ combat.iteration >= 2

(***************************************************************************)
(* Conservation of copies, checked under SpecShop.                         *)
(***************************************************************************)
\* The units named nm a living owner holds in the shop and on the board.
HeldCopies(nm) ==
    IF owner.alive
    THEN Count(shop_names(tavern.shop), nm) + Count(shop_names(owner.board), nm)
    ELSE 0

\* C34: for every blueprint name the copies left in the pool and the copies
\* in the shop and on the board of the living player are together as many as
\* the pool started with.
C34_CopiesAreConserved ==
    \A nm \in DOMAIN available_counts :
        available_counts[nm] + HeldCopies(nm)
            = COPIES_PER_TIER[minion_blueprints[nm]]

\* C35: the listener list of the death event holds exactly one handler for
\* each unit with an effect that is on the live board, and no handler of a
\* unit that is not on the live board.
C35_NoStaleOrDuplicateSubscription ==
    \A id \in UnitIds :
        Count(Subscribed(listeners, MINION_DIES), id)
            = IF id \in Range(minions) /\ units[id].ek THEN 1 ELSE 0

\* The players of the pairing in progress and the player left without an
\* opponent.
Paired == {game.alive[game.i + 1], game.alive[game.i + 2]}

\* The players whose health a step changes.
Damaged == {n \in 1..Len(game.players) :
               game'.players[n].health # game.players[n].health}

\* C36: in a game that starts with at least one player the number of alive
\* players never reaches zero; each combat pairing damages at most one of
\* its two players and nobody else, so the player without an opponent takes
\* no damage.
C36_SomePlayerStaysAlive ==
    /\ [](game.pc # "new" /\ Len(game.players) >= 1
            => Cardinality(alive_players(game.players)) >= 1)
    /\ [][ game.pc = "combat"
            => /\ Cardinality(Damaged) <= 1
               /\ Damaged # {} => Damaged \subseteq Paired ]_vars

\* The pairing loop of a combat phase of three players is over: one player
\* of the pairing was eliminated in it and two players are alive.
C36_Witness ==
    /\ game.pc = "combat"
    /\ game.i >= Len(game.alive) - 1
    /\ Len(game.alive) = 3
    /\ \E n \in Range(game.alive) : ~game.players[n].alive
    /\ Cardinality(alive_players(game.players)) = 2

====
